---- MODULE Spec2Model ----
(***************************************************************************)
(* Model of zampie_utils.async_utils: submit_task, sequential_map,         *)
(* parallel_map, auto_map and parallel_execute.                            *)
(*                                                                         *)
(* One behaviour of the model is one top-level call.  The call's inputs    *)
(* are chosen in Init; the actions are the steps of the calling thread     *)
(* and of the worker threads of the ThreadPoolExecutor.                    *)
(***************************************************************************)
EXTENDS Integers, Sequences, FiniteSets, TLC

(***************************************************************************)
(* Bounds of the model.                                                    *)
(***************************************************************************)
MaxItems == 3
MaxWorkers == 2

(***************************************************************************)
(* Python values, tagged by type.                                          *)
(***************************************************************************)
PyNone == [t |-> "NoneType", v |-> 0]
PyInt(n) == [t |-> "int", v |-> n]
PyStr(s) == [t |-> "str", v |-> s]
PyTuple(s) == [t |-> "tuple", v |-> s]
PyList(s) == [t |-> "list", v |-> s]
PyDict(d) == [t |-> "dict", v |-> d]
PyFunc(name) == [t |-> "function", v |-> name]
\* a value that is none of the above and cannot be called
PyObject == [t |-> "object", v |-> 0]

\* the empty dict {}: a function with an empty domain
EmptyDict == [k \in {} |-> PyNone]

\* isinstance(x, dict), isinstance(x, (tuple, list)), callable(x)
IsDict(x) == x.t = "dict"
IsSeq(x) == x.t \in {"tuple", "list"}
IsCallable(x) == x.t = "function"

(***************************************************************************)
(* Outcome of a Python call: it returns a value, raises an exception       *)
(* derived from Exception, or raises one derived only from BaseException   *)
(* (SystemExit, KeyboardInterrupt), which "except Exception" lets through. *)
(***************************************************************************)
Ret(val) == [kind |-> "ret", val |-> val, etype |-> "", msg |-> ""]
Raise(etype, msg) == [kind |-> "exc", val |-> PyNone, etype |-> etype, msg |-> msg]
RaiseBase(etype, msg) == [kind |-> "base", val |-> PyNone, etype |-> etype, msg |-> msg]

\* a handler that is too narrow: "except ValueError"
CaughtByExceptValueError(o) == o.kind = "exc" /\ o.etype = "ValueError"

\* "except Exception" catches o
CaughtByExceptException(o) == o.kind = "exc"

\* str(e): the message, except that KeyError shows the repr of the key
StrOfError(o) == IF o.etype = "KeyError" THEN "'" \o o.msg \o "'" ELSE o.msg

(***************************************************************************)
(* The functions that callers pass as func (test inputs).                  *)
(*   add     lambda x, y: x + y                                            *)
(*   add_ab  lambda a, b: a + b                                            *)
(*   addz    lambda x, y, z=0: x + y + z                                   *)
(*   dsum    lambda d: d['a'] + d['b']                                     *)
(*   dbl     lambda x: x * 2                                               *)
(*   one     def func1(): return 1                                         *)
(*   recip   def recip(x): sys.exit() if x < 0 else 10 // x                *)
(***************************************************************************)
FuncNames == {"add", "add_ab", "addz", "dsum", "dbl", "one", "recip"}

Params(f) ==
    CASE f = "add" -> <<"x", "y">>
      [] f = "add_ab" -> <<"a", "b">>
      [] f = "addz" -> <<"x", "y", "z">>
      [] f = "dsum" -> <<"d">>
      [] f = "dbl" -> <<"x">>
      [] f = "one" -> <<>>
      [] f = "recip" -> <<"x">>

Defaults(f) == IF f = "addz" THEN [z |-> PyInt(0)] ELSE EmptyDict

\* a + b
PyAdd(a, b) ==
    IF a.t = "int" /\ b.t = "int" THEN Ret(PyInt(a.v + b.v))
    ELSE IF a.t = b.t /\ a.t \in {"tuple", "list"} THEN Ret([t |-> a.t, v |-> a.v \o b.v])
    ELSE IF a.t = "str" /\ b.t = "str" THEN Ret(PyStr(a.v \o b.v))
    ELSE Raise("TypeError", "unsupported operand type(s) for +: " \o a.t \o " and " \o b.t)

\* the body of f, run with its parameters bound by b
Body(f, b) ==
    CASE f \in {"add", "add_ab"} -> PyAdd(b[Params(f)[1]], b[Params(f)[2]])
      [] f = "addz" ->
            LET s == PyAdd(b["x"], b["y"])
            IN  IF s.kind = "ret" THEN PyAdd(s.val, b["z"]) ELSE s
      [] f = "dsum" ->
            LET d == b["d"]
            IN  IF IsDict(d)
                THEN IF "a" \notin DOMAIN d.v THEN Raise("KeyError", "a")
                     ELSE IF "b" \notin DOMAIN d.v THEN Raise("KeyError", "b")
                     ELSE PyAdd(d.v["a"], d.v["b"])
                ELSE IF d.t \in {"tuple", "list", "str"}
                THEN Raise("TypeError", d.t \o " indices must be integers")
                ELSE Raise("TypeError", d.t \o " object is not subscriptable")
      [] f = "dbl" ->
            LET x == b["x"]
            IN  IF x.t = "int" THEN Ret(PyInt(x.v * 2))
                ELSE IF x.t \in {"tuple", "list", "str"} THEN Ret([t |-> x.t, v |-> x.v \o x.v])
                ELSE Raise("TypeError", "unsupported operand type(s) for *: " \o x.t \o " and int")
      [] f = "one" -> Ret(PyInt(1))
      [] f = "recip" ->
            LET x == b["x"]
            IN  IF x.t # "int" THEN Raise("TypeError", "'<' not supported between " \o x.t \o " and int")
                ELSE IF x.v < 0 THEN RaiseBase("SystemExit", "")
                ELSE IF x.v = 0 THEN Raise("ZeroDivisionError", "integer division or modulo by zero")
                ELSE Ret(PyInt(10 \div x.v))

\* the positions of name n in the sequence s
IndexOf(s, n) == CHOOSE i \in 1..Len(s) : s[i] = n
Names(s) == {s[i] : i \in 1..Len(s)}

(***************************************************************************)
(* Python's call of f with positional arguments pos and keyword arguments  *)
(* kw: bind the arguments to the parameters of f                           *)
(* and run the body, or raise TypeError when they do not fit.              *)
(***************************************************************************)
Call(f, pos, kw) ==
    LET ps == Params(f)
        df == Defaults(f)
        given(p) == IndexOf(ps, p) <= Len(pos) \/ p \in DOMAIN kw
        bound == [p \in Names(ps) |->
                    IF IndexOf(ps, p) <= Len(pos) THEN pos[IndexOf(ps, p)]
                    ELSE IF p \in DOMAIN kw THEN kw[p]
                    ELSE df[p]]
    IN  IF Len(pos) > Len(ps)
        THEN Raise("TypeError", f \o "() takes fewer positional arguments than given")
        ELSE IF \E k \in DOMAIN kw : k \notin Names(ps)
        THEN Raise("TypeError", f \o "() got an unexpected keyword argument")
        ELSE IF \E k \in DOMAIN kw : IndexOf(ps, k) <= Len(pos)
        THEN Raise("TypeError", f \o "() got multiple values for an argument")
        ELSE IF \E p \in Names(ps) : ~given(p) /\ p \notin DOMAIN df
        THEN Raise("TypeError", f \o "() missing a required argument")
        ELSE Body(f, bound)

\* star-unpacking a into positional arguments: a must be iterable
CallStar(f, a, kw) ==
    IF IsSeq(a) THEN Call(f, a.v, kw)
    ELSE Raise("TypeError", "argument after * must be an iterable, not " \o a.t)

\* star-star-unpacking k into keyword arguments: k must be a mapping
CallStarStar(f, a, k) ==
    IF ~IsDict(k) THEN Raise("TypeError", "argument after ** must be a mapping, not " \o k.t)
    ELSE CallStar(f, a, k.v)

(***************************************************************************)
(* The invocation form that a dispatch resolves to: which positional and   *)
(* keyword arguments func is called with.                                  *)
(***************************************************************************)
Form(pos, kw) == [pos |-> pos, kw |-> kw]

\* submit_task with the generic branches tested before the reserved keys
submit_task_form_generic_first(item, unpack_args, unpack_kwargs) ==
    IF IsDict(item)
    THEN IF unpack_kwargs
         THEN Form(PyTuple(<<>>), item)
         ELSE IF "args" \in DOMAIN item.v /\ "kwargs" \in DOMAIN item.v
         THEN Form(item.v["args"], item.v["kwargs"])
         ELSE IF "args" \in DOMAIN item.v
         THEN Form(item.v["args"], PyDict(EmptyDict))
         ELSE IF "kwargs" \in DOMAIN item.v
         THEN Form(PyTuple(<<>>), item.v["kwargs"])
         ELSE Form(PyTuple(<<item>>), PyDict(EmptyDict))
    ELSE IF IsSeq(item) /\ item.t # "str"
    THEN IF unpack_args
         THEN Form(item, PyDict(EmptyDict))
         ELSE Form(PyTuple(<<item>>), PyDict(EmptyDict))
    ELSE Form(PyTuple(<<item>>), PyDict(EmptyDict))

\* submit_task that unpacks a tuple or list whatever unpack_args is
submit_task_form_always_unpack(item, unpack_args, unpack_kwargs) ==
    IF IsDict(item)
    THEN IF "args" \in DOMAIN item.v /\ "kwargs" \in DOMAIN item.v
         THEN Form(item.v["args"], item.v["kwargs"])
         ELSE IF "args" \in DOMAIN item.v
         THEN Form(item.v["args"], PyDict(EmptyDict))
         ELSE IF "kwargs" \in DOMAIN item.v
         THEN Form(PyTuple(<<>>), item.v["kwargs"])
         ELSE IF unpack_kwargs
              THEN Form(PyTuple(<<>>), item)
              ELSE Form(PyTuple(<<item>>), PyDict(EmptyDict))
    ELSE IF IsSeq(item) /\ item.t # "str"
    THEN Form(item, PyDict(EmptyDict))
    ELSE Form(PyTuple(<<item>>), PyDict(EmptyDict))

\* submit_task(func, item, unpack_args, unpack_kwargs): the form chosen
submit_task_form(item, unpack_args, unpack_kwargs) ==
    IF IsDict(item)
    THEN IF "args" \in DOMAIN item.v /\ "kwargs" \in DOMAIN item.v
         THEN Form(item.v["args"], item.v["kwargs"])
         ELSE IF "args" \in DOMAIN item.v
         THEN Form(item.v["args"], PyDict(EmptyDict))
         ELSE IF "kwargs" \in DOMAIN item.v
         THEN Form(PyTuple(<<>>), item.v["kwargs"])
         ELSE IF unpack_kwargs
              THEN Form(PyTuple(<<>>), item)
              ELSE Form(PyTuple(<<item>>), PyDict(EmptyDict))
    ELSE IF IsSeq(item) /\ item.t # "str"
    THEN IF unpack_args
         THEN Form(item, PyDict(EmptyDict))
         ELSE Form(PyTuple(<<item>>), PyDict(EmptyDict))
    ELSE Form(PyTuple(<<item>>), PyDict(EmptyDict))

\* submit_task(func, item, unpack_args, unpack_kwargs): the call's outcome
submit_task(func, item, unpack_args, unpack_kwargs) ==
    LET fm == submit_task_form(item, unpack_args, unpack_kwargs)
    IN  CallStarStar(func, fm.pos, fm.kw)


(***************************************************************************)
(* Logger.log(level, message): level.lower() selects the routed method;    *)
(* an unknown name falls back to info, "none" is a no-op.  A level that is *)
(* not a str has no lower() and the call raises AttributeError.            *)
(***************************************************************************)
LoggerLog(level) ==
    IF level.t = "str" THEN Ret(PyNone)
    ELSE Raise("AttributeError", level.t \o " object has no attribute 'lower'")

(***************************************************************************)
(* parallel_execute.parse_and_execute(task, index): the descriptor is      *)
(* parsed and the task called; an Exception is re-raised or replaced by    *)
(* the substitute inside the worker.                                       *)
(***************************************************************************)
\* a parser that skips a descriptor it does not recognise and returns None
parse_task_skips_malformed(task) ==
    IF IsCallable(task) /\ ~(IsSeq(task) \/ IsDict(task))
    THEN Call(task.v, <<>>, EmptyDict)
    ELSE IF IsSeq(task)
    THEN IF Len(task.v) = 0
         THEN Ret(PyNone)
         ELSE LET func == task.v[1]
                  args0 == IF Len(task.v) > 1 THEN task.v[2] ELSE PyTuple(<<>>)
                  kwargs0 == IF Len(task.v) > 2 THEN task.v[3] ELSE PyDict(EmptyDict)
                  args == IF ~IsSeq(args0) THEN PyTuple(<<args0>>) ELSE args0
                  kwargs == IF ~IsDict(kwargs0) THEN PyDict(EmptyDict) ELSE kwargs0
              IN  IF ~IsCallable(func)
                  THEN Raise("TypeError", func.t \o " object is not callable")
                  ELSE CallStarStar(func.v, args, kwargs)
    ELSE IF IsDict(task)
    THEN IF "func" \notin DOMAIN task.v
         THEN Ret(PyNone)
         ELSE LET func == task.v["func"]
                  args0 == IF "args" \in DOMAIN task.v THEN task.v["args"] ELSE PyTuple(<<>>)
                  kwargs0 == IF "kwargs" \in DOMAIN task.v THEN task.v["kwargs"] ELSE PyDict(EmptyDict)
                  args == IF ~IsSeq(args0)
                          THEN (IF args0 # PyNone THEN PyTuple(<<args0>>) ELSE PyTuple(<<>>))
                          ELSE args0
                  kwargs == IF ~IsDict(kwargs0) THEN PyDict(EmptyDict) ELSE kwargs0
              IN  IF ~IsCallable(func)
                  THEN Raise("TypeError", func.t \o " object is not callable")
                  ELSE CallStarStar(func.v, args, kwargs)
    ELSE Ret(PyNone)

\* the call that the descriptor resolves to, before the error policy
parse_task(task) ==
    IF IsCallable(task) /\ ~(IsSeq(task) \/ IsDict(task))
    THEN Call(task.v, <<>>, EmptyDict)
    ELSE IF IsSeq(task)
    THEN IF Len(task.v) = 0
         THEN Raise("ValueError", "task tuple must not be empty")
         ELSE LET func == task.v[1]
                  args0 == IF Len(task.v) > 1 THEN task.v[2] ELSE PyTuple(<<>>)
                  kwargs0 == IF Len(task.v) > 2 THEN task.v[3] ELSE PyDict(EmptyDict)
                  args == IF ~IsSeq(args0) THEN PyTuple(<<args0>>) ELSE args0
                  kwargs == IF ~IsDict(kwargs0) THEN PyDict(EmptyDict) ELSE kwargs0
              IN  IF ~IsCallable(func)
                  THEN Raise("TypeError", func.t \o " object is not callable")
                  ELSE CallStarStar(func.v, args, kwargs)
    ELSE IF IsDict(task)
    THEN IF "func" \notin DOMAIN task.v
         THEN Raise("ValueError", "task dict must contain the key 'func'")
         ELSE LET func == task.v["func"]
                  args0 == IF "args" \in DOMAIN task.v THEN task.v["args"] ELSE PyTuple(<<>>)
                  kwargs0 == IF "kwargs" \in DOMAIN task.v THEN task.v["kwargs"] ELSE PyDict(EmptyDict)
                  args == IF ~IsSeq(args0)
                          THEN (IF args0 # PyNone THEN PyTuple(<<args0>>) ELSE PyTuple(<<>>))
                          ELSE args0
                  kwargs == IF ~IsDict(kwargs0) THEN PyDict(EmptyDict) ELSE kwargs0
              IN  IF ~IsCallable(func)
                  THEN Raise("TypeError", func.t \o " object is not callable")
                  ELSE CallStarStar(func.v, args, kwargs)
    ELSE Raise("ValueError", "unsupported task format: " \o task.t)

\* a raise that wraps the caught error in a new Exception
Reraise_wrapped(o) == Raise("Exception", "task failed: " \o StrOfError(o))

\* the bare "raise" of the except branch: the caught exception itself
Reraise(o) == o

\* a substitute that never takes the "error_log" branch
Substitute_literal(e, error_return_value) == error_return_value

\* the value stored for a caught error e: error_return_value, or str(e)
Substitute(e, error_return_value) ==
    IF error_return_value = PyStr("error_log")
    THEN PyStr(StrOfError(e))
    ELSE error_return_value

parse_and_execute(task, raise_on_error, error_return_value) ==
    LET o == parse_task(task)
    IN  IF CaughtByExceptException(o)
        THEN IF raise_on_error THEN Reraise(o) ELSE Ret(Substitute(o, error_return_value))
        ELSE o


(***************************************************************************)
(* The calls the model explores.                                           *)
(***************************************************************************)
\* max_workers=5 is the default of parallel_map, max_workers=1 of auto_map
DefaultMaxWorkers == 5
AutoMapDefaultMaxWorkers == 1

\* sequences over S of length 0..n
SeqsUpTo(S, n) == UNION {[1..k -> S] : k \in 0..n}

\* items of the batches: with func = recip they give ZeroDivisionError, 10, 5
\* and SystemExit
BatchPool == {PyInt(0), PyInt(1), PyInt(2), PyInt(-1)}

\* one item of every shape that submit_task distinguishes
ShapePool ==
    { PyInt(7), PyStr("ab"),
      PyTuple(<<PyInt(1), PyInt(2)>>), PyList(<<PyInt(3), PyInt(4)>>),
      PyDict([a |-> PyInt(1), b |-> PyInt(2)]),
      PyDict([x |-> PyInt(1), y |-> PyInt(2)]),
      PyDict([args |-> PyTuple(<<PyInt(1), PyInt(2)>>)]),
      PyDict([kwargs |-> PyDict([x |-> PyInt(4), y |-> PyInt(5)])]),
      PyDict([args |-> PyTuple(<<PyInt(1), PyInt(2)>>), kwargs |-> PyDict([z |-> PyInt(3)])]),
      PyDict([args |-> PyTuple(<<PyInt(1)>>), kwargs |-> PyDict([y |-> PyInt(6)])]) }

ErrValues == {PyNone, PyInt(-9), PyStr("error_log")}

\* the progress bar used when the caller names none
DefaultProgressType == "rich"

MapCall(fn, func, items, mw, ua, uk, roe, erv, lvl) ==
    [fn |-> fn, func |-> func, items |-> items, max_workers |-> mw,
     unpack_args |-> ua, unpack_kwargs |-> uk,
     raise_on_error |-> roe, error_return_value |-> erv, log_level |-> lvl,
     progress_type |-> DefaultProgressType]

\* levels passed as log_level
LogLevels == {PyStr("none")}

\* the entry points with the pool sizes tried for each
MapEntries ==
    ({"parallel_map"} \X {PyInt(n) : n \in 0..MaxWorkers})
    \cup ({"auto_map"} \X {PyInt(n) : n \in AutoMapDefaultMaxWorkers..MaxWorkers})
    \cup ({"sequential_map"} \X {PyInt(1)})

\* batches of up to MaxItems items mapped with recip
BatchCalls ==
    { MapCall(e[1], "recip", items, e[2], FALSE, FALSE, roe, erv, lvl) :
        e \in MapEntries, items \in SeqsUpTo(BatchPool, MaxItems),
        roe \in BOOLEAN, erv \in ErrValues, lvl \in LogLevels }

\* one item of every shape with every combination of the unpack flags
ShapeCalls ==
    { MapCall(fn, func, <<item>>, PyInt(2), fl[1], fl[2], FALSE, PyStr("error_log"), lvl) :
        fn \in {"parallel_map", "sequential_map"},
        func \in {"add", "addz", "dsum", "dbl"},
        item \in ShapePool, fl \in BOOLEAN \X BOOLEAN, lvl \in LogLevels }

\* the examples of parallel_map's docstring, called as written there
DocCalls ==
    { MapCall("parallel_map", "dbl", <<PyInt(1), PyInt(2), PyInt(3)>>,
              PyInt(DefaultMaxWorkers), FALSE, FALSE, FALSE, PyNone, PyStr("none")),
      MapCall("parallel_map", "add",
              <<PyTuple(<<PyInt(1), PyInt(2)>>), PyTuple(<<PyInt(3), PyInt(4)>>),
                PyTuple(<<PyInt(5), PyInt(6)>>)>>,
              PyInt(DefaultMaxWorkers), FALSE, FALSE, FALSE, PyNone, PyStr("none")),
      MapCall("parallel_map", "add_ab",
              <<PyDict([a |-> PyInt(1), b |-> PyInt(2)]), PyDict([a |-> PyInt(3), b |-> PyInt(4)])>>,
              PyInt(DefaultMaxWorkers), FALSE, FALSE, FALSE, PyNone, PyStr("none")),
      MapCall("parallel_map", "dsum",
              <<PyDict([a |-> PyInt(1), b |-> PyInt(2)]), PyDict([a |-> PyInt(3), b |-> PyInt(4)])>>,
              PyInt(DefaultMaxWorkers), FALSE, FALSE, FALSE, PyNone, PyStr("none")),
      MapCall("parallel_map", "addz",
              <<PyDict([args |-> PyTuple(<<PyInt(1), PyInt(2)>>), kwargs |-> PyDict([z |-> PyInt(3)])]),
                PyDict([args |-> PyTuple(<<PyInt(4), PyInt(5)>>), kwargs |-> PyDict([z |-> PyInt(6)])])>>,
              PyInt(DefaultMaxWorkers), FALSE, FALSE, FALSE, PyNone, PyStr("none")) }

\* task descriptors of the batches given to parallel_execute
TaskBatchPool ==
    { PyFunc("one"),
      PyTuple(<<PyFunc("add"), PyTuple(<<PyInt(1), PyInt(2)>>)>>),
      PyTuple(<<PyFunc("recip"), PyTuple(<<PyInt(0)>>)>>),
      PyDict([func |-> PyFunc("recip"), args |-> PyTuple(<<PyInt(-1)>>)]) }

\* one descriptor of every shape that parse_and_execute distinguishes
TaskShapePool ==
    { PyFunc("one"),
      PyTuple(<<PyFunc("one")>>),
      PyTuple(<<PyFunc("add"), PyTuple(<<PyInt(3), PyInt(4)>>)>>),
      PyList(<<PyFunc("dbl"), PyInt(4)>>),
      PyTuple(<<PyFunc("addz"), PyTuple(<<PyInt(1), PyInt(2)>>), PyDict([z |-> PyInt(3)])>>),
      PyTuple(<<PyFunc("add"), PyTuple(<<>>), PyDict([x |-> PyInt(2), y |-> PyInt(3)])>>),
      PyDict([func |-> PyFunc("one")]),
      PyDict([func |-> PyFunc("add"), args |-> PyTuple(<<PyInt(5), PyInt(6)>>)]),
      PyDict([func |-> PyFunc("add"), kwargs |-> PyDict([x |-> PyInt(1), y |-> PyInt(1)])]),
      PyDict([func |-> PyFunc("addz"), args |-> PyList(<<PyInt(1), PyInt(2)>>),
              kwargs |-> PyDict([z |-> PyInt(4)])]),
      PyTuple(<<>>),
      PyDict([args |-> PyTuple(<<PyInt(1)>>)]),
      PyInt(5) }

\* parallel_execute has no func and no unpack flags: the fields are unused
ExecCall(tasks, mw, roe, erv) ==
    [MapCall("parallel_execute", "one", tasks, mw, FALSE, FALSE, roe, erv, PyStr("none"))
        EXCEPT !.progress_type = "none"]

ExecBatchCalls ==
    { ExecCall(tasks, mw, roe, erv) :
        tasks \in SeqsUpTo(TaskBatchPool, MaxItems),
        mw \in {PyNone} \cup {PyInt(n) : n \in 1..MaxWorkers},
        roe \in BOOLEAN, erv \in {PyNone, PyStr("error_log")} }

ExecShapeCalls ==
    { ExecCall(<<tasks[2], tasks[1], tasks[2]>>, PyNone, roe, PyStr("error_log")) :
        tasks \in TaskShapePool \X {PyTuple(<<PyFunc("add"), PyTuple(<<PyInt(1), PyInt(2)>>)>>)},
        roe \in BOOLEAN }

\* batches in which two items fail with different errors (ZeroDivisionError
\* for 0, TypeError for "ab")
MixedErrorCalls ==
    { MapCall("parallel_map", "recip", items, PyInt(2), FALSE, FALSE, roe, PyStr("error_log"),
              PyStr("none")) :
        items \in { <<PyInt(0), PyStr("ab"), PyInt(2)>>,
                    <<PyStr("ab"), PyInt(2), PyInt(0)>>,
                    <<PyInt(2), PyInt(0), PyStr("ab")>> },
        roe \in BOOLEAN }

\* calls that name their progress bar: "tqdm", or "none" for no bar
ProgressCalls ==
    { [MapCall(en[1], "recip", items, en[2], FALSE, FALSE, roe, PyStr("error_log"), PyStr("none"))
          EXCEPT !.progress_type = pt] :
        en \in {<<"parallel_map", PyInt(2)>>, <<"parallel_map", PyInt(1)>>,
                <<"sequential_map", PyInt(1)>>},
        items \in { <<PyInt(2), PyInt(0), PyInt(1)>>, <<PyInt(0), PyInt(-1)>> },
        roe \in BOOLEAN,
        pt \in {"tqdm", "none"} }

\* the positional-arguments example of parallel_execute's docstring
ExecDocCalls ==
    { ExecCall(<<PyTuple(<<PyFunc("add"), PyTuple(<<PyInt(1), PyInt(2)>>)>>),
                 PyTuple(<<PyFunc("add"), PyTuple(<<PyInt(3), PyInt(4)>>)>>)>>,
               PyNone, FALSE, PyNone) }

Calls ==
    BatchCalls \cup ShapeCalls \cup DocCalls
    \cup ExecBatchCalls \cup ExecShapeCalls \cup ExecDocCalls
    \cup MixedErrorCalls \cup ProgressCalls


(***************************************************************************)
(* State of one call.                                                      *)
(*   call       the arguments of the call                                  *)
(*   pc         where the calling thread is                                *)
(*   results    the list results                                           *)
(*   st         per item: "new", "queued" (submitted, Future pending),     *)
(*              "running" (its invocation has started), "done"             *)
(*   fut        per item: the outcome held by its Future once done         *)
(*   invoc      the invocations started so far, in order of their start    *)
(*   yielded    the items whose Future as_completed has yielded, in the    *)
(*              order in which it yielded them                             *)
(*   pool       the ThreadPoolExecutor: "none", "open" or "joined"         *)
(*   workers    the max_workers the pool was created with                  *)
(*   err        the exception on its way to the caller                     *)
(*   pending    history: how many tasks were queued or running when the    *)
(*              loop over as_completed was left                            *)
(*   advances   how far the progress sink (rich task or tqdm bar) has been *)
(*              advanced                                                   *)
(***************************************************************************)
VARIABLES call, pc, results, st, fut, invoc, yielded, pool, workers, err, pending,
          advances

asyncVars == <<call, pc, results, st, fut, invoc, yielded, pool, workers, err, pending, advances>>

(***************************************************************************)
(* State of one call of a function wrapped by time_utils.timeout.          *)
(*   tcall            the wrapped function, its arguments and the seconds  *)
(*                    given to the decorator                               *)
(*   wpc              where the calling thread is inside wrapper           *)
(*   thread           the thread running target: "unstarted", "running"    *)
(*                    (inside func), "returned" (func has returned, the    *)
(*                    result not yet put), "caught" (func has raised, the  *)
(*                    exception not yet put), "exiting" (the put is done), *)
(*                    "dead" (is_alive() is False)                         *)
(*   result_queue     the queue.Queue of results                           *)
(*   exception_queue  the queue.Queue of exceptions                        *)
(*   delivered        what wrapper returned or raised to its caller        *)
(*   wait_ended       history: whether func had finished when join ended   *)
(***************************************************************************)
VARIABLES tcall, wpc, thread, result_queue, exception_queue, delivered, wait_ended

timeoutVars == <<tcall, wpc, thread, result_queue, exception_queue, delivered, wait_ended>>

(***************************************************************************)
(* State of one call of a function wrapped by decorators.retry.            *)
(*   rcall        retries, and what func does at each of its invocations   *)
(*   rpc          where the caller is inside wrapper                       *)
(*   attempts     the local attempts                                       *)
(*   err_history  the local err_history                                    *)
(*   rlog         history: the invocations of func ("invoke") and the      *)
(*                calls of time.sleep ("sleep"), in order                  *)
(*   rdelivered   what wrapper returned or raised to its caller            *)
(***************************************************************************)
VARIABLES rcall, rpc, attempts, err_history, rlog, rdelivered

retryVars == <<rcall, rpc, attempts, err_history, rlog, rdelivered>>

(***************************************************************************)
(* State of one class whose metaclass is Singleton, called by threads.     *)
(*   instance     the class attribute __instance: 0 for None, else the     *)
(*                identity of an object                                    *)
(*   init_count   how many times the class's __init__ has run              *)
(*   tpc          per thread: where it is inside Singleton.__call__        *)
(*   created      per thread: the object its super().__call__ has built    *)
(*   returned     per thread: the objects its calls have returned so far   *)
(***************************************************************************)
VARIABLES instance, init_count, tpc, created, returned

singletonVars == <<instance, init_count, tpc, created, returned>>

(***************************************************************************)
(* State of one call of request_utils.get_file_base64.                     *)
(*   source    the argument, a string as a sequence of characters          *)
(*   fs        what the file system holds under that name                  *)
(*   net       what the server does with a GET of that name                *)
(*   bpc       where the call is                                           *)
(*   bresult   what the call returned or raised                            *)
(***************************************************************************)
VARIABLES source, fs, net, bpc, bresult

base64Vars == <<source, fs, net, bpc, bresult>>

(***************************************************************************)
(* State of one function decorated with time_utils.Timer, called by        *)
(* threads.                                                                *)
(*   turn              Timer.turn                                          *)
(*   first_start_time  Timer.first_start_time: FALSE for None, TRUE once   *)
(*                     it holds a time                                     *)
(*   timer_lock        Timer._lock: 0 when free, else the thread holding   *)
(*                     it                                                  *)
(*   kpc               per thread: where it is inside wrapper              *)
(*   kerror            per thread: the local error, TRUE when func raised  *)
(*                     an Exception                                        *)
(*   local_info        per thread: the local time_info                     *)
(*   time_info         the attribute wrapper.time_info; turn 0 while the   *)
(*                     attribute is not set                                *)
(*   kdone             per thread: the calls it has finished               *)
(***************************************************************************)
VARIABLES turn, first_start_time, timer_lock, kpc, kerror, local_info, time_info, kdone

timerVars == <<turn, first_start_time, timer_lock, kpc, kerror, local_info, time_info, kdone>>

(***************************************************************************)
(* State of the Logger object.                                             *)
(*   handlers           self.logger.handlers, a list                       *)
(*   console_handler    self.console_handler                               *)
(*   file_handler_dict  self.file_handler_dict: logfile -> handler         *)
(*   handler_count      how many file handler objects have been built      *)
(*   lret               the last call made and what it gave                *)
(*   lops               how many calls have been made                      *)
(***************************************************************************)
VARIABLES handlers, console_handler, file_handler_dict, handler_count, lret, lops

loggerVars == <<handlers, console_handler, file_handler_dict, handler_count, lret, lops>>

(***************************************************************************)
(* State of one run_cmd_stream generator, its child process and its        *)
(* consumer.                                                               *)
(*   scall       the arguments and what the child and line_callback do     *)
(*   gpc         where the generator is                                    *)
(*   process     the child: "none" (no Popen object), "running",           *)
(*               "closed" (running, its stdout closed), "exited"           *)
(*   pipe        the lines written by the child and not yet read           *)
(*   line_count  the local line_count                                      *)
(*   line        the local line                                            *)
(*   lines_out   the lines yielded to the consumer so far                  *)
(*   gexc        the exception on its way out of the generator             *)
(*   signals     the signals sent to the child                             *)
(***************************************************************************)
VARIABLES scall, gpc, process, pipe, line_count, line, lines_out, gexc, signals

streamVars == <<scall, gpc, process, pipe, line_count, line, lines_out, gexc, signals>>

\* for each component, the variables of the others, which it leaves alone
notAsync == <<timeoutVars, retryVars, singletonVars, base64Vars, timerVars, loggerVars, streamVars>>
notTimeout == <<asyncVars, retryVars, singletonVars, base64Vars, timerVars, loggerVars, streamVars>>
notRetry == <<asyncVars, timeoutVars, singletonVars, base64Vars, timerVars, loggerVars, streamVars>>
notSingleton == <<asyncVars, timeoutVars, retryVars, base64Vars, timerVars, loggerVars, streamVars>>
notBase64 == <<asyncVars, timeoutVars, retryVars, singletonVars, timerVars, loggerVars, streamVars>>
notTimer == <<asyncVars, timeoutVars, retryVars, singletonVars, base64Vars, loggerVars, streamVars>>
notLogger == <<asyncVars, timeoutVars, retryVars, singletonVars, base64Vars, timerVars, streamVars>>
notStream == <<asyncVars, timeoutVars, retryVars, singletonVars, base64Vars, timerVars, loggerVars>>

vars ==
    <<asyncVars, timeoutVars, retryVars, singletonVars, base64Vars, timerVars, loggerVars,
      streamVars>>

NoOutcome == [kind |-> "none", val |-> PyNone, etype |-> "", msg |-> ""]

N == Len(call.items)
Idx == 1..N

Running == {i \in Idx : st[i] = "running"}
Queued == {i \in Idx : st[i] = "queued"}
Yielded == {yielded[k] : k \in 1..Len(yielded)}

\* no wrapped function is being called
TimeoutIdle ==
    /\ tcall = [func |-> "one", args |-> <<>>, kwargs |-> EmptyDict, seconds |-> PyNone]
    /\ wpc = "idle"
    /\ thread = "unstarted"
    /\ result_queue = <<>>
    /\ exception_queue = <<>>
    /\ delivered = NoOutcome
    /\ wait_ended = "no"

\* no function wrapped by retry is being called
RetryIdle ==
    /\ rcall = [retries |-> 0, outcomes |-> <<>>]
    /\ rpc = "idle"
    /\ attempts = 0
    /\ err_history = <<>>
    /\ rlog = <<>>
    /\ rdelivered = NoOutcome

\* no thread calls a Singleton class
SingletonIdle ==
    /\ instance = 0
    /\ init_count = 0
    /\ tpc = <<>>
    /\ created = <<>>
    /\ returned = <<>>

\* get_file_base64 is not being called
Base64Idle ==
    /\ source = <<>>
    /\ fs = [kind |-> "absent", content |-> <<>>]
    /\ net = [kind |-> "down", content |-> <<>>]
    /\ bpc = "idle"
    /\ bresult = NoOutcome

\* no decorated function is being timed
TimerIdle ==
    /\ turn = 0
    /\ first_start_time = FALSE
    /\ timer_lock = 0
    /\ kpc = <<>>
    /\ kerror = <<>>
    /\ local_info = <<>>
    /\ time_info = [turn |-> 0, failed |-> FALSE]
    /\ kdone = <<>>

\* no method of the Logger is being called
LoggerIdle ==
    /\ handlers = <<>>
    /\ console_handler = [kind |-> "none", id |-> 0, level |-> 0]
    /\ file_handler_dict = <<>>
    /\ handler_count = 0
    /\ lret = [op |-> "idle"]
    /\ lops = 0

\* no command is being streamed
StreamIdle ==
    /\ scall = [lines |-> <<>>, line_callback |-> "none", max_lines |-> 0, popen_ok |-> FALSE]
    /\ gpc = "idle"
    /\ process = "none"
    /\ pipe = <<>>
    /\ line_count = 0
    /\ line = ""
    /\ lines_out = <<>>
    /\ gexc = "none"
    /\ signals = <<>>

\* the components other than the map functions are idle
OthersIdle == TimerIdle /\ LoggerIdle /\ StreamIdle

Init ==
    /\ TimeoutIdle /\ RetryIdle /\ SingletonIdle /\ Base64Idle /\ OthersIdle
    /\ call \in Calls
    /\ pc = call.fn
    /\ results = <<>>
    /\ st = [i \in 1..Len(call.items) |-> "new"]
    /\ fut = [i \in 1..Len(call.items) |-> NoOutcome]
    /\ invoc = <<>>
    /\ yielded = <<>>
    /\ pool = "none"
    /\ workers = 0
    /\ err = NoOutcome
    /\ pending = 0
    /\ advances = 0

\* what one task computes: the body run for item i by whoever invokes it
TaskForm(i) ==
    IF call.fn = "parallel_execute"
    THEN Form(PyTuple(<<call.items[i], PyInt(i - 1)>>), PyDict(EmptyDict))
    ELSE submit_task_form(call.items[i], call.unpack_args, call.unpack_kwargs)

TaskBody(i) ==
    IF call.fn = "parallel_execute"
    THEN parse_and_execute(call.items[i], call.raise_on_error, call.error_return_value)
    ELSE submit_task(call.func, call.items[i], call.unpack_args, call.unpack_kwargs)

\* a progress sink that only the rich branch advances
ProgressUpdate_rich_only(progress_type) ==
    IF progress_type = "rich" THEN 1 ELSE 0

\* how far one pass of the loop advances the progress sink:
\* progress.update(total_task, advance=1) in the rich branch, pbar.update(1)
\* in the tqdm branch, nothing in the branch without a progress bar
ProgressUpdate(progress_type) ==
    IF progress_type = "rich" THEN 1
    ELSE IF progress_type = "tqdm" THEN 1
    ELSE 0

\* the try block around one result: the result is formatted and logged
\* before it is stored, so an error raised by the logging is the block's
TryBlock(o, level) ==
    IF o.kind = "ret" /\ LoggerLog(level).kind # "ret" THEN LoggerLog(level) ELSE o

\* a test that sends max_workers = 1 to the pool
UseSequential_below_one(max_workers) == max_workers < 1

\* parallel_map's test for running sequentially
UseSequential(max_workers) == max_workers <= 1

\* an index that follows the order of completion instead of the input
future_to_index_completion_order(i) == Len(yielded) + 1

\* future_to_index of parallel_map: the index stored with the Future of item i
future_to_index(i) == i

\* as above, for parallel_execute
execute_future_to_index_completion_order(i) == Len(yielded) + 1

\* future_to_index of parallel_execute
execute_future_to_index(i) == i

(***************************************************************************)
(* auto_map: calls parallel_map with the same arguments.                   *)
(***************************************************************************)
auto_map ==
    /\ pc = "auto_map"
    /\ pc' = "parallel_map"
    /\ UNCHANGED <<call, results, st, fut, invoc, yielded, pool, workers, err, pending, advances, notAsync>>

(***************************************************************************)
(* parallel_map, max_workers <= 1: return sequential_map(...).             *)
(***************************************************************************)
parallel_map_delegate ==
    /\ pc = "parallel_map"
    /\ UseSequential(call.max_workers.v)
    /\ pc' = "sequential_map"
    /\ UNCHANGED <<call, results, st, fut, invoc, yielded, pool, workers, err, pending, advances, notAsync>>

(***************************************************************************)
(* parallel_map, max_workers >= 2: results = [None] * len(items) and the   *)
(* ThreadPoolExecutor is entered.                                          *)
(***************************************************************************)
parallel_map_pool ==
    /\ pc = "parallel_map"
    /\ ~UseSequential(call.max_workers.v)
    /\ results' = [i \in Idx |-> PyNone]
    /\ pool' = "open"
    /\ workers' = call.max_workers.v
    /\ pc' = "submit"
    /\ UNCHANGED <<call, st, fut, invoc, yielded, err, pending, advances, notAsync>>

(***************************************************************************)
(* sequential_map: results = [] and the loop over enumerate(items).        *)
(***************************************************************************)
sequential_map ==
    /\ pc = "sequential_map"
    /\ results' = <<>>
    /\ pc' = "seq_loop"
    /\ UNCHANGED <<call, st, fut, invoc, yielded, pool, workers, err, pending, advances, notAsync>>

\* the loop takes the next item and calls submit_task on the calling thread
seq_invoke ==
    /\ pc = "seq_loop"
    /\ Len(results) < N
    /\ LET i == Len(results) + 1
       IN  /\ st' = [st EXCEPT ![i] = "running"]
           /\ invoc' = Append(invoc, [index |-> i, form |-> TaskForm(i)])
    /\ pc' = "seq_call"
    /\ UNCHANGED <<call, results, fut, yielded, pool, workers, err, pending, advances, notAsync>>

\* a loop body that substitutes and goes on even when raise_on_error is set
seq_record_never_raises ==
    /\ pc = "seq_call"
    /\ LET i == Len(results) + 1
           o == TryBlock(TaskBody(i), call.log_level)
       IN  /\ st' = [st EXCEPT ![i] = "done"]
           /\ fut' = [fut EXCEPT ![i] = TaskBody(i)]
           /\ IF o.kind = "ret"
              THEN /\ results' = Append(results, o.val)
                   /\ pc' = "seq_loop"
                   /\ err' = err
                   /\ advances' = advances + ProgressUpdate(call.progress_type)
              ELSE IF CaughtByExceptException(o)
              THEN /\ results' = Append(results, Substitute(o, call.error_return_value))
                   /\ pc' = "seq_loop"
                   /\ err' = err
                   /\ advances' = advances + ProgressUpdate(call.progress_type)
              ELSE /\ results' = results
                   /\ pc' = "raised"
                   /\ err' = o
                   /\ advances' = advances
    /\ UNCHANGED <<call, invoc, yielded, pool, workers, pending, notAsync>>

\* submit_task has returned or raised: the rest of the loop body
seq_record ==
    /\ pc = "seq_call"
    /\ LET i == Len(results) + 1
           o == TryBlock(TaskBody(i), call.log_level)
       IN  /\ st' = [st EXCEPT ![i] = "done"]
           /\ fut' = [fut EXCEPT ![i] = TaskBody(i)]
           /\ IF o.kind = "ret"
              THEN /\ results' = Append(results, o.val)
                   /\ pc' = "seq_loop"
                   /\ err' = err
                   /\ advances' = advances + ProgressUpdate(call.progress_type)
              ELSE IF CaughtByExceptException(o) /\ ~call.raise_on_error
              THEN /\ results' = Append(results, Substitute(o, call.error_return_value))
                   /\ pc' = "seq_loop"
                   /\ err' = err
                   /\ advances' = advances + ProgressUpdate(call.progress_type)
              ELSE /\ results' = results
                   /\ pc' = "raised"
                   /\ err' = IF CaughtByExceptException(o) THEN Reraise(o) ELSE o
                   /\ advances' = advances
    /\ UNCHANGED <<call, invoc, yielded, pool, workers, pending, notAsync>>

\* the loop is exhausted: return results
seq_return ==
    /\ pc = "seq_loop"
    /\ Len(results) = N
    /\ pc' = "returned"
    /\ UNCHANGED <<call, results, st, fut, invoc, yielded, pool, workers, err, pending, advances, notAsync>>


(***************************************************************************)
(* parallel_execute: an empty task list returns [] at once; otherwise      *)
(* max_workers defaults to len(tasks), results = [None] * len(tasks) and   *)
(* the ThreadPoolExecutor is entered.                                      *)
(***************************************************************************)
parallel_execute_empty ==
    /\ pc = "parallel_execute"
    /\ N = 0
    /\ results' = <<>>
    /\ pc' = "returned"
    /\ UNCHANGED <<call, st, fut, invoc, yielded, pool, workers, err, pending, advances, notAsync>>

\* a pool size that falls back to parallel_map's default of 5 workers
PoolSize_default(max_workers, n) ==
    IF max_workers = PyNone THEN DefaultMaxWorkers ELSE max_workers.v

\* the effective pool size of parallel_execute: "if max_workers is None:
\* max_workers = len(tasks)", then ThreadPoolExecutor(max_workers=max_workers)
PoolSize(max_workers, n) ==
    IF max_workers = PyNone THEN n ELSE max_workers.v

parallel_execute_pool ==
    /\ pc = "parallel_execute"
    /\ N # 0
    /\ workers' = PoolSize(call.max_workers, N)
    /\ results' = [i \in Idx |-> PyNone]
    /\ pool' = "open"
    /\ pc' = "submit"
    /\ UNCHANGED <<call, st, fut, invoc, yielded, err, pending, advances, notAsync>>

(***************************************************************************)
(* The dict comprehension future_to_index: executor.submit for every item  *)
(* in input order; each submit queues one work item.                       *)
(***************************************************************************)
submit ==
    /\ pc = "submit"
    /\ \E i \in Idx :
        /\ st[i] = "new"
        /\ \A j \in 1..(i - 1) : st[j] # "new"
        /\ st' = [st EXCEPT ![i] = "queued"]
    /\ UNCHANGED <<call, pc, results, fut, invoc, yielded, pool, workers, err, pending, advances, notAsync>>

\* every item is submitted: the loop over as_completed starts
submit_done ==
    /\ pc = "submit"
    /\ \A i \in Idx : st[i] # "new"
    /\ pc' = "collect"
    /\ UNCHANGED <<call, results, st, fut, invoc, yielded, pool, workers, err, pending, advances, notAsync>>

\* worker threads that take no new work item once the caller has left the
\* collect loop
worker_start_until_exit ==
    /\ pool = "open"
    /\ pc # "exit"
    /\ Cardinality(Running) < workers
    /\ \E i \in Queued :
        /\ \A j \in Queued : i <= j
        /\ st' = [st EXCEPT ![i] = "running"]
        /\ invoc' = Append(invoc, [index |-> i, form |-> TaskForm(i)])
    /\ UNCHANGED <<call, pc, results, fut, yielded, pool, workers, err, pending, advances, notAsync>>

(***************************************************************************)
(* The pool's worker threads: at most max_workers of them, each taking the *)
(* oldest queued work item, running it and setting its Future.             *)
(***************************************************************************)
worker_start ==
    /\ pool = "open"
    /\ Cardinality(Running) < workers
    /\ \E i \in Queued :
        /\ \A j \in Queued : i <= j
        /\ st' = [st EXCEPT ![i] = "running"]
        /\ invoc' = Append(invoc, [index |-> i, form |-> TaskForm(i)])
    /\ UNCHANGED <<call, pc, results, fut, yielded, pool, workers, err, pending, advances, notAsync>>

worker_finish ==
    /\ \E i \in Running :
        /\ st' = [st EXCEPT ![i] = "done"]
        /\ fut' = [fut EXCEPT ![i] = TaskBody(i)]
    /\ pool = "open"
    /\ UNCHANGED <<call, pc, results, invoc, yielded, pool, workers, err, pending, advances, notAsync>>

\* a collect loop that leaves the slot of a failed item as it was allocated
parallel_map_collect_keeps_none ==
    /\ pc = "collect"
    /\ call.fn # "parallel_execute"
    /\ \E i \in Idx \ Yielded :
        /\ st[i] = "done"
        /\ yielded' = Append(yielded, i)
        /\ LET index == future_to_index(i)
               o == TryBlock(fut[i], call.log_level)
           IN  IF o.kind = "ret"
               THEN /\ results' = [results EXCEPT ![index] = o.val]
                    /\ advances' = advances + ProgressUpdate(call.progress_type)
                    /\ UNCHANGED <<pc, err, pending>>
               ELSE IF CaughtByExceptException(o) /\ ~call.raise_on_error
               THEN /\ results' = results
                    /\ advances' = advances + ProgressUpdate(call.progress_type)
                    /\ UNCHANGED <<pc, err, pending>>
               ELSE /\ pc' = "exit"
                    /\ err' = IF CaughtByExceptException(o) THEN Reraise(o) ELSE o
                    /\ pending' = Cardinality(Running \cup Queued)
                    /\ UNCHANGED <<results, advances>>
    /\ UNCHANGED <<call, st, fut, invoc, pool, workers, notAsync>>

\* a loop that, on a failure, raises the error of the failing item with the
\* lowest index instead of the one it has just taken
parallel_map_collect_lowest ==
    /\ pc = "collect"
    /\ call.fn # "parallel_execute"
    /\ \E i \in Idx \ Yielded :
        /\ st[i] = "done"
        /\ yielded' = Append(yielded, i)
        /\ LET index == future_to_index(i)
               o == TryBlock(fut[i], call.log_level)
               low == CHOOSE j \in Idx :
                          /\ TaskBody(j).kind # "ret"
                          /\ \A k \in 1..(j - 1) : TaskBody(k).kind = "ret"
           IN  IF o.kind = "ret"
               THEN /\ results' = [results EXCEPT ![index] = o.val]
                    /\ advances' = advances + ProgressUpdate(call.progress_type)
                    /\ UNCHANGED <<pc, err, pending>>
               ELSE IF CaughtByExceptException(o) /\ ~call.raise_on_error
               THEN /\ results' = [results EXCEPT ![index] = Substitute(o, call.error_return_value)]
                    /\ advances' = advances + ProgressUpdate(call.progress_type)
                    /\ UNCHANGED <<pc, err, pending>>
               ELSE /\ pc' = "exit"
                    /\ err' = TaskBody(low)
                    /\ pending' = Cardinality(Running \cup Queued)
                    /\ UNCHANGED <<results, advances>>
    /\ UNCHANGED <<call, st, fut, invoc, pool, workers, notAsync>>

(***************************************************************************)
(* parallel_map: one iteration of "for future in as_completed(...)": a     *)
(* finished Future not yet yielded is taken and its result logged and      *)
(* stored at its index, or its error handled.                              *)
(***************************************************************************)
parallel_map_collect ==
    /\ pc = "collect"
    /\ call.fn # "parallel_execute"
    /\ \E i \in Idx \ Yielded :
        /\ st[i] = "done"
        /\ yielded' = Append(yielded, i)
        /\ LET index == future_to_index(i)
               o == TryBlock(fut[i], call.log_level)
           IN  IF o.kind = "ret"
               THEN /\ results' = [results EXCEPT ![index] = o.val]
                    /\ advances' = advances + ProgressUpdate(call.progress_type)
                    /\ UNCHANGED <<pc, err, pending>>
               ELSE IF CaughtByExceptException(o) /\ ~call.raise_on_error
               THEN /\ results' = [results EXCEPT ![index] = Substitute(o, call.error_return_value)]
                    /\ advances' = advances + ProgressUpdate(call.progress_type)
                    /\ UNCHANGED <<pc, err, pending>>
               ELSE /\ pc' = "exit"
                    /\ err' = IF CaughtByExceptException(o) THEN Reraise(o) ELSE o
                    /\ pending' = Cardinality(Running \cup Queued)
                    /\ UNCHANGED <<results, advances>>
    /\ UNCHANGED <<call, st, fut, invoc, pool, workers, notAsync>>

(***************************************************************************)
(* parallel_execute: one iteration of its loop over as_completed.          *)
(***************************************************************************)
parallel_execute_collect ==
    /\ pc = "collect"
    /\ call.fn = "parallel_execute"
    /\ \E i \in Idx \ Yielded :
        /\ st[i] = "done"
        /\ yielded' = Append(yielded, i)
        /\ LET index == execute_future_to_index(i)
               o == fut[i]
           IN  IF o.kind = "ret"
               THEN /\ results' = [results EXCEPT ![index] = o.val]
                    /\ UNCHANGED <<pc, err, pending>>
               ELSE IF CaughtByExceptException(o) /\ ~call.raise_on_error
               THEN /\ results' = [results EXCEPT ![index] = Substitute(o, call.error_return_value)]
                    /\ UNCHANGED <<pc, err, pending>>
               ELSE /\ pc' = "exit"
                    /\ err' = IF CaughtByExceptException(o) THEN Reraise(o) ELSE o
                    /\ pending' = Cardinality(Running \cup Queued)
                    /\ UNCHANGED results
    /\ UNCHANGED <<call, st, fut, invoc, pool, workers, advances, notAsync>>

\* as_completed has yielded every Future: the with block is left normally
collect_done ==
    /\ pc = "collect"
    /\ Yielded = Idx
    /\ pc' = "exit"
    /\ UNCHANGED <<call, results, st, fut, invoc, yielded, pool, workers, err, pending, advances, notAsync>>

\* an exit that drops the work items still in the queue:
\* shutdown(wait=True, cancel_futures=True)
pool_exit_cancels ==
    /\ pc = "exit"
    /\ Running = {}
    /\ pool' = "joined"
    /\ st' = [i \in Idx |-> IF st[i] = "queued" THEN "cancelled" ELSE st[i]]
    /\ pc' = IF err = NoOutcome THEN "returned" ELSE "raised"
    /\ UNCHANGED <<call, results, fut, invoc, yielded, workers, err, pending, advances, notAsync>>

\* an exit that does not wait for the workers: shutdown(wait=False)
pool_exit_no_wait ==
    /\ pc = "exit"
    /\ pool' = "joined"
    /\ pc' = IF err = NoOutcome THEN "returned" ELSE "raised"
    /\ UNCHANGED <<call, results, st, fut, invoc, yielded, workers, err, pending, advances, notAsync>>

(***************************************************************************)
(* ThreadPoolExecutor.__exit__: shutdown(wait=True).  Queued work items    *)
(* are still run; the calling thread goes on once every worker has ended,  *)
(* then returns results or lets the exception propagate.                   *)
(***************************************************************************)
pool_exit ==
    /\ pc = "exit"
    /\ Running = {} /\ Queued = {}
    /\ pool' = "joined"
    /\ pc' = IF err = NoOutcome THEN "returned" ELSE "raised"
    /\ UNCHANGED <<call, results, st, fut, invoc, yielded, workers, err, pending, advances, notAsync>>

Next ==
    \/ auto_map
    \/ parallel_map_delegate
    \/ parallel_map_pool
    \/ sequential_map
    \/ seq_invoke
    \/ seq_record
    \/ seq_return
    \/ parallel_execute_empty
    \/ parallel_execute_pool
    \/ submit
    \/ submit_done
    \/ worker_start
    \/ worker_finish
    \/ parallel_map_collect
    \/ parallel_execute_collect
    \/ collect_done
    \/ pool_exit

Spec == Init /\ [][Next]_vars

\* no map function is being called
AsyncIdle ==
    /\ call = ExecCall(<<>>, PyNone, FALSE, PyNone)
    /\ pc = "idle"
    /\ results = <<>>
    /\ st = <<>>
    /\ fut = <<>>
    /\ invoc = <<>>
    /\ yielded = <<>>
    /\ pool = "none"
    /\ workers = 0
    /\ err = NoOutcome
    /\ pending = 0
    /\ advances = 0


(***************************************************************************)
(* Properties.                                                             *)
(***************************************************************************)
MapFns == {"parallel_map", "auto_map", "sequential_map"}

\* the call runs items through the pool of parallel_map
ViaPool == call.fn \in {"parallel_map", "auto_map"} /\ call.max_workers.v >= 2

\* the call runs the loop of sequential_map
ViaSequential ==
    \/ call.fn = "sequential_map"
    \/ call.fn \in {"parallel_map", "auto_map"} /\ call.max_workers.v <= 1

\* what invoking func on items[i] gives
ItemOutcome(i) == submit_task(call.func, call.items[i], call.unpack_args, call.unpack_kwargs)

\* the value the substitute policy prescribes for the error e
ErrorSubstitute(e) ==
    IF call.error_return_value = PyStr("error_log")
    THEN PyStr(StrOfError(e))
    ELSE call.error_return_value

\* the value that belongs in slot i under the substitute policy
SlotValue(i) ==
    IF ItemOutcome(i).kind = "ret" THEN ItemOutcome(i).val ELSE ErrorSubstitute(ItemOutcome(i))

\* C1: in parallel_map with max_workers >= 2 and raise_on_error=False, at
\* every moment and in every completion order, slot i of results holds the
\* outcome of func on items[i] once the Future of item i has been handled
\* and None before; no outcome is stored at another index, and the returned
\* list has all N slots filled this way.
C1_SlotIsOutcomeOfItem ==
    (ViaPool /\ ~call.raise_on_error /\ pool # "none") =>
        /\ Len(results) = N
        /\ \A i \in Idx :
              results[i] = IF i \in Yielded /\ ItemOutcome(i).kind # "base"
                           THEN SlotValue(i)
                           ELSE PyNone
        /\ (pc = "returned" => Yielded = Idx)

\* C1 witness: a call that returned after as_completed yielded the Futures
\* out of input order, with a failed and a successful item
C1_Witness ==
    /\ ViaPool /\ ~call.raise_on_error /\ pc = "returned"
    /\ N >= 3
    /\ yielded[1] = 3 /\ yielded[2] = 1
    /\ \E i \in Idx : fut[i].kind = "exc"
    /\ \E i \in Idx : fut[i].kind = "ret"
    /\ call.error_return_value = PyStr("error_log")

\* C2 as stated: with raise_on_error=False the three map functions never
\* raise, whatever the items raise, and return a list of length N.
C2_NeverRaisesWhateverRaised ==
    (call.fn \in MapFns /\ ~call.raise_on_error) =>
        /\ pc # "raised"
        /\ (pc = "returned" => Len(results) = N)

\* C2 amended: with raise_on_error=False the three map functions return a
\* list of length N whenever they return, and they raise only when some
\* item raised an exception that is not derived from Exception.
C2_SameLengthUnlessBaseException ==
    (call.fn \in MapFns /\ ~call.raise_on_error) =>
        /\ (pc = "returned" => Len(results) = N)
        /\ (pc = "raised" =>
              /\ err.kind = "base"
              /\ \E i \in Idx : ItemOutcome(i) = err)
        /\ ((\A i \in Idx : ItemOutcome(i).kind # "base") => err = NoOutcome)

\* C2 witness: every item failed and the call still returned N slots
C2_Witness ==
    /\ call.fn = "auto_map" /\ ~call.raise_on_error /\ pc = "returned"
    /\ N = 3
    /\ \A i \in Idx : fut[i].kind = "exc"
    /\ Len(results) = 3

C4_PoolJoinedOnExit ==
    (ViaPool /\ pc \in {"raised", "returned"}) =>
        /\ pool = "joined"
        /\ Running = {} /\ Queued = {}
        /\ \A i \in Idx : st[i] = "done"

\* C4 witness: raise_on_error=True, a task failed, and tasks were still
\* queued or running when the loop raised
C4_Witness ==
    /\ ViaPool /\ call.raise_on_error /\ pc = "raised"
    /\ err.kind = "exc"
    /\ pending > 0
    /\ Len(yielded) < N

\* the lowest index whose invocation fails (N + 1 when none fails)
FirstFailing ==
    IF \E i \in Idx : ItemOutcome(i).kind # "ret"
    THEN CHOOSE i \in Idx : /\ ItemOutcome(i).kind # "ret"
                            /\ \A j \in 1..(i - 1) : ItemOutcome(j).kind = "ret"
    ELSE N + 1

\* C5: in sequential_map with raise_on_error=True func is never invoked on
\* an item after the first failing one, the call raises that item's error,
\* and it returns a list only when no item fails.
C5_SequentialRaisesAtFirstFailure ==
    (ViaSequential /\ call.raise_on_error) =>
        /\ \A k \in 1..Len(invoc) : invoc[k].index <= FirstFailing
        /\ (pc = "raised" =>
              /\ FirstFailing <= N
              /\ err = ItemOutcome(FirstFailing)
              /\ Len(invoc) = FirstFailing)
        /\ (pc = "returned" => FirstFailing = N + 1 /\ Len(results) = N)

\* C5 witness: the call raised at item 2 of 3 and item 3 was never invoked
C5_Witness ==
    /\ call.fn = "sequential_map" /\ call.raise_on_error /\ pc = "raised"
    /\ N = 3
    /\ err.kind = "exc"
    /\ Len(invoc) = 2
    /\ st[3] = "new"
    /\ ItemOutcome(3).kind # "ret"

\* C6: with max_workers <= 1, parallel_map and auto_map create no pool and
\* invoke func in input order, one invocation at a time: item i + 1 is
\* invoked only after the invocation for item i has finished.
C6_SingleWorkerIsSequential ==
    (call.fn \in {"parallel_map", "auto_map"} /\ call.max_workers.v <= 1) =>
        /\ pool = "none" /\ workers = 0
        /\ Queued = {}
        /\ Cardinality(Running) <= 1
        /\ \A k \in 1..Len(invoc) :
              /\ invoc[k].index = k
              /\ \A j \in 1..(k - 1) : st[j] = "done"

\* C6 witness: auto_map with max_workers=1 has invoked three items
C6_Witness ==
    /\ call.fn = "auto_map" /\ call.max_workers.v = 1
    /\ pc = "returned"
    /\ Len(invoc) = 3


\* the item is a dict with both reserved keys
HasArgsAndKwargs(item) ==
    IsDict(item) /\ "args" \in DOMAIN item.v /\ "kwargs" \in DOMAIN item.v

\* C7: for an item that is a dict with both "args" and "kwargs", every
\* invocation made for it has the positional arguments item["args"] and the
\* keyword arguments item["kwargs"], whatever unpack_args and unpack_kwargs
\* are, and its outcome is that of this call.
C7_ArgsAndKwargsUnpacked ==
    call.fn \in MapFns =>
        \A k \in 1..Len(invoc) :
            LET i == invoc[k].index
                item == call.items[i]
            IN  HasArgsAndKwargs(item) =>
                  /\ invoc[k].form = Form(item.v["args"], item.v["kwargs"])
                  /\ (st[i] = "done" =>
                        fut[i] = CallStarStar(call.func, item.v["args"], item.v["kwargs"]))

\* C7 witness: {"args": (1, 2), "kwargs": {"z": 3}} with unpack_kwargs=True
\* has been passed to lambda x, y, z=0: x + y + z, which returned 6
C7_Witness ==
    /\ call.fn \in MapFns /\ call.unpack_kwargs /\ call.func = "addz"
    /\ N = 1 /\ Len(invoc) = 1 /\ st[1] = "done"
    /\ call.items[1] = PyDict([args |-> PyTuple(<<PyInt(1), PyInt(2)>>),
                              kwargs |-> PyDict([z |-> PyInt(3)])])
    /\ fut[1] = Ret(PyInt(6))

\* the six-branch reference table of invocation forms
C8_RefForm(item, unpack_args, unpack_kwargs) ==
    CASE HasArgsAndKwargs(item) -> Form(item.v["args"], item.v["kwargs"])
      [] IsDict(item) /\ "args" \in DOMAIN item.v /\ "kwargs" \notin DOMAIN item.v ->
            Form(item.v["args"], PyDict(EmptyDict))
      [] IsDict(item) /\ "kwargs" \in DOMAIN item.v /\ "args" \notin DOMAIN item.v ->
            Form(PyTuple(<<>>), item.v["kwargs"])
      [] IsDict(item) /\ "args" \notin DOMAIN item.v /\ "kwargs" \notin DOMAIN item.v ->
            IF unpack_kwargs THEN Form(PyTuple(<<>>), item)
            ELSE Form(PyTuple(<<item>>), PyDict(EmptyDict))
      [] item.t \in {"tuple", "list"} ->
            IF unpack_args THEN Form(item, PyDict(EmptyDict))
            ELSE Form(PyTuple(<<item>>), PyDict(EmptyDict))
      [] OTHER -> Form(PyTuple(<<item>>), PyDict(EmptyDict))

\* C8: every invocation made by submit_task has the form that the
\* six-branch reference table gives for the item's shape and the two flags.
C8_FormMatchesReferenceTable ==
    call.fn \in MapFns =>
        \A k \in 1..Len(invoc) :
            invoc[k].form =
                C8_RefForm(call.items[invoc[k].index], call.unpack_args, call.unpack_kwargs)

\* C8 witness: a list item with unpack_args=True was unpacked into the two
\* parameters of lambda x, y: x + y
C8_Witness ==
    /\ call.fn \in MapFns /\ call.unpack_args /\ ~call.unpack_kwargs
    /\ call.func = "add"
    /\ call.items = <<PyList(<<PyInt(3), PyInt(4)>>)>>
    /\ pc = "returned"
    /\ invoc[1].form = Form(PyList(<<PyInt(3), PyInt(4)>>), PyDict(EmptyDict))
    /\ results = <<PyInt(7)>>

\* C9: the docstring examples of parallel_map, called with the default
\* flags as written there, return [3, 7, 11] for the tuple items and
\* [3, 7] for the dict items.
C9_DocstringExamplesUnpack ==
    (call \in DocCalls /\ pc = "returned") =>
        /\ (call.func = "add" => results = <<PyInt(3), PyInt(7), PyInt(11)>>)
        /\ (call.func = "add_ab" => results = <<PyInt(3), PyInt(7)>>)

\* the descriptor has one of the four shapes: a bare callable, a
\* (func, args) pair, a (func, args, kwargs) triple, or a dict with 'func'
\* and optional 'args' / 'kwargs'
C10_WellFormed(task) ==
    \/ IsCallable(task)
    \/ /\ IsSeq(task) /\ Len(task.v) = 2
       /\ IsCallable(task.v[1]) /\ IsSeq(task.v[2])
    \/ /\ IsSeq(task) /\ Len(task.v) = 3
       /\ IsCallable(task.v[1]) /\ IsSeq(task.v[2]) /\ IsDict(task.v[3])
    \/ /\ IsDict(task) /\ "func" \in DOMAIN task.v /\ IsCallable(task.v["func"])
       /\ ("args" \in DOMAIN task.v => IsSeq(task.v["args"]))
       /\ ("kwargs" \in DOMAIN task.v => IsDict(task.v["kwargs"]))

\* what running a well-formed descriptor gives
C10_TaskOutcome(task) ==
    CASE IsCallable(task) -> Call(task.v, <<>>, EmptyDict)
      [] IsSeq(task) /\ Len(task.v) = 2 -> CallStar(task.v[1].v, task.v[2], EmptyDict)
      [] IsSeq(task) /\ Len(task.v) = 3 -> CallStarStar(task.v[1].v, task.v[2], task.v[3])
      [] IsDict(task) ->
            CallStarStar(task.v["func"].v,
                         IF "args" \in DOMAIN task.v THEN task.v["args"] ELSE PyTuple(<<>>),
                         IF "kwargs" \in DOMAIN task.v THEN task.v["kwargs"] ELSE PyDict(EmptyDict))

\* C10: in parallel_execute, at every moment and in every completion
\* order, slot i of results holds the outcome of task i once its Future has
\* been handled and None before, for each of the four descriptor shapes,
\* and a returned list has length len(tasks) with every slot handled.
C10_ExecuteSlotIsOutcomeOfTask ==
    call.fn = "parallel_execute" =>
        /\ (pool # "none" =>
              /\ Len(results) = N
              /\ \A i \in Idx :
                    LET o == C10_TaskOutcome(call.items[i])
                    IN  C10_WellFormed(call.items[i]) =>
                          results[i] =
                            IF i \in Yielded /\ o.kind = "ret" THEN o.val
                            ELSE IF i \in Yielded /\ o.kind = "exc" /\ ~call.raise_on_error
                            THEN ErrorSubstitute(o)
                            ELSE PyNone)
        /\ (pc = "returned" => Len(results) = N /\ Yielded = Idx)

\* C10 witness: the example [(add, (1, 2)), (add, (3, 4))] returned [3, 7]
\* after the second task's Future was yielded first
C10_Witness ==
    /\ call.fn = "parallel_execute" /\ pc = "returned"
    /\ call.items = <<PyTuple(<<PyFunc("add"), PyTuple(<<PyInt(1), PyInt(2)>>)>>),
                      PyTuple(<<PyFunc("add"), PyTuple(<<PyInt(3), PyInt(4)>>)>>)>>
    /\ yielded = <<2, 1>>
    /\ results = <<PyInt(3), PyInt(7)>>

\* the descriptor is malformed: an empty tuple or list, a dict without
\* 'func', or a value that is neither callable, tuple, list nor dict
C11_Malformed(task) ==
    \/ IsSeq(task) /\ Len(task.v) = 0
    \/ IsDict(task) /\ "func" \notin DOMAIN task.v
    \/ ~IsCallable(task) /\ ~IsSeq(task) /\ ~IsDict(task)

\* the value of a slot under the substitute policy, for an error message m
C11_SubstituteFor(m) ==
    IF call.error_return_value = PyStr("error_log") THEN PyStr(m) ELSE call.error_return_value

\* the message of the ValueError for a malformed descriptor
C11_Message(task) ==
    IF IsSeq(task) THEN "task tuple must not be empty"
    ELSE IF IsDict(task) THEN "task dict must contain the key 'func'"
    ELSE "unsupported task format: " \o task.t

\* C11: in parallel_execute a malformed descriptor is an error under the
\* same policy as a failing task: its task is run (not skipped) and ends in
\* a ValueError; with raise_on_error=True the call raises, with
\* raise_on_error=False the substitute is stored in its slot and the slots
\* of the well-formed tasks hold their own outcomes.
C11_MalformedFollowsPolicy ==
    (call.fn = "parallel_execute" /\ pc \in {"returned", "raised"}) =>
        \A i \in Idx :
            C11_Malformed(call.items[i]) =>
                /\ \E k \in 1..Len(invoc) : invoc[k].index = i
                /\ st[i] = "done"
                /\ IF call.raise_on_error
                   THEN /\ pc = "raised"
                        /\ fut[i].kind = "exc" /\ fut[i].etype = "ValueError"
                   ELSE /\ fut[i] = Ret(C11_SubstituteFor(C11_Message(call.items[i])))
                        /\ (pc = "returned" =>
                              /\ results[i] = C11_SubstituteFor(C11_Message(call.items[i]))
                              /\ \A j \in Idx :
                                    (C10_WellFormed(call.items[j])
                                       /\ C10_TaskOutcome(call.items[j]).kind = "ret") =>
                                        results[j] = C10_TaskOutcome(call.items[j]).val)
                        /\ (pc = "raised" => err.kind = "base")

\* C11 witness: an empty tuple between two well-formed tasks, substituted
\* by the text of its error
C11_Witness ==
    /\ call.fn = "parallel_execute" /\ ~call.raise_on_error /\ pc = "returned"
    /\ N = 3
    /\ call.items[2] = PyTuple(<<>>)
    /\ results = <<PyInt(3), PyStr("task tuple must not be empty"), PyInt(3)>>

\* the error that task i ends in, before any policy is applied
TaskError(i) ==
    IF call.fn = "parallel_execute" THEN parse_task(call.items[i]) ELSE ItemOutcome(i)

\* the task whose handling made the call raise: the last one the loop took
RaisingTask == IF pool = "none" THEN Len(invoc) ELSE yielded[Len(yielded)]

\* C12 as stated: under raise_on_error=True the exception delivered to the
\* caller is a wrapper around the task error, not the task error itself,
\* and its message carries the messages of the failing tasks.
C12_WrapsAndAggregates ==
    (call.raise_on_error /\ pc = "raised") =>
        /\ \A i \in Idx : err # TaskError(i)
        /\ \A i \in Idx : TaskError(i).kind = "exc" => err.msg # TaskError(i).msg

\* C12 amended: under raise_on_error=True the exception delivered to the
\* caller is the error of one failing task, re-raised unchanged: the task
\* the loop handled last.  It is not wrapped and its message is that
\* task's message alone.
C12_OriginalErrorReraised ==
    (call.raise_on_error /\ pc = "raised") =>
        /\ RaisingTask \in Idx
        /\ TaskError(RaisingTask).kind \in {"exc", "base"}
        /\ err = TaskError(RaisingTask)

\* C12 witness: two tasks failed with different errors and the caller got
\* the TypeError of one of them, with nothing of the other's
C12_Witness ==
    /\ call \in MixedErrorCalls /\ call.raise_on_error /\ pc = "raised"
    /\ err.etype = "TypeError"
    /\ \E i \in Idx : fut[i].etype = "ZeroDivisionError"

\* C17: once parallel_execute has built its pool, the pool's size is
\* len(tasks) when max_workers was None and the given max_workers
\* otherwise; never more tasks run at once than that size, and with the
\* default no submitted task is kept waiting for want of a worker.
C17_PoolSizeIsTaskCount ==
    (call.fn = "parallel_execute" /\ pool # "none") =>
        /\ call.max_workers = PyNone => workers = N
        /\ call.max_workers # PyNone => workers = call.max_workers.v
        /\ Cardinality(Running) <= workers
        /\ (call.max_workers = PyNone /\ Queued # {}) => Cardinality(Running) < workers

\* C17 witness: three tasks and no max_workers: all three run at once
C17_Witness ==
    /\ call.fn = "parallel_execute" /\ call.max_workers = PyNone
    /\ N = 3 /\ workers = 3 /\ Running = Idx

\* C17 witness for the override: three tasks, max_workers=1, one running
\* and the other two waiting in the queue
C17_WitnessOverride ==
    /\ call.fn = "parallel_execute" /\ call.max_workers = PyInt(1)
    /\ N = 3 /\ workers = 1 /\ Cardinality(Running) = 1 /\ Cardinality(Queued) = 2

\* how many times func has been invoked on item i
InvocationsOf(i) == Cardinality({k \in DOMAIN invoc : invoc[k].index = i})

\* C18: in parallel_map with max_workers >= 2 every item has been submitted
\* before the first result is collected; func is never invoked twice on an
\* item; and when the call ends, by returning or by raising, under either
\* value of raise_on_error, func has been invoked exactly once on every
\* item and every task has run to its end, those still queued when the
\* failure was observed included.
C18_EveryItemInvokedOnce ==
    ViaPool =>
        /\ (pc \in {"collect", "exit", "returned", "raised"}) => \A i \in Idx : st[i] # "new"
        /\ Len(yielded) > 0 => \A i \in Idx : st[i] # "new"
        /\ \A i \in Idx : InvocationsOf(i) <= 1
        /\ \A i \in Idx : st[i] \in {"running", "done"} <=> InvocationsOf(i) = 1
        /\ (pc \in {"returned", "raised"}) =>
               \A i \in Idx : InvocationsOf(i) = 1 /\ st[i] = "done"

\* C18 witness: the call is about to raise for a failed item while another
\* item is still waiting in the queue, not yet invoked
C18_WitnessQueuedAtFailure ==
    /\ ViaPool /\ call.raise_on_error /\ pc = "exit" /\ err # NoOutcome
    /\ \E i \in Queued : InvocationsOf(i) = 0

\* C18 witness: the call has raised, tasks were still queued or running when
\* the failure was observed, and func was invoked once on each of 3 items
C18_Witness ==
    /\ ViaPool /\ call.raise_on_error /\ pc = "raised" /\ N = 3
    /\ pending = 2 /\ Len(yielded) = 1
    /\ \A i \in Idx : InvocationsOf(i) = 1

\* C19: in parallel_map with max_workers >= 2 and raise_on_error=True, the
\* error on its way to the caller is the error of the failing item the
\* collecting loop took first: every item the loop took before it had
\* succeeded, and the loop took nothing after it.
C19_FirstObservedFailureRaised ==
    (ViaPool /\ call.raise_on_error /\ err # NoOutcome) =>
        /\ Len(yielded) > 0
        /\ LET k == yielded[Len(yielded)]
           IN  /\ ItemOutcome(k).kind # "ret"
               /\ err = ItemOutcome(k)
               /\ \A n \in 1..(Len(yielded) - 1) : ItemOutcome(yielded[n]).kind = "ret"

\* C19 witness: items 1 and 2 both fail and the caller gets the TypeError
\* of item 2, not the ZeroDivisionError of item 1
C19_Witness ==
    /\ call \in MixedErrorCalls /\ call.raise_on_error /\ pc = "raised"
    /\ call.items = <<PyInt(0), PyStr("ab"), PyInt(2)>>
    /\ yielded[Len(yielded)] = 2
    /\ err = Raise("TypeError", ItemOutcome(2).msg)
    /\ ItemOutcome(1).etype = "ZeroDivisionError"

\* C19 witness for the other interleaving: same call, the caller gets the
\* ZeroDivisionError of item 1
C19_WitnessLowest ==
    /\ call \in MixedErrorCalls /\ call.raise_on_error /\ pc = "raised"
    /\ call.items = <<PyInt(0), PyStr("ab"), PyInt(2)>>
    /\ yielded[Len(yielded)] = 1
    /\ err.etype = "ZeroDivisionError"

\* the outcomes recorded so far: results stored or substituted by the loop
Recorded ==
    IF ViaPool THEN Len(yielded) - (IF err = NoOutcome THEN 0 ELSE 1) ELSE Len(results)

\* C20: in parallel_map and sequential_map with a rich or tqdm progress bar
\* and raise_on_error=False the progress sink has been advanced once for
\* every outcome recorded so far, success or substitute alike, never more;
\* when the call returns it has been advanced N times.
C20_OneAdvancePerRecordedOutcome ==
    (call.fn \in MapFns /\ call.progress_type \in {"rich", "tqdm"} /\ ~call.raise_on_error) =>
        /\ advances <= Recorded
        /\ (pc \notin {"seq_call"}) => advances = Recorded
        /\ pc = "returned" => advances = N

\* C20 witness: a tqdm call through the pool has returned three results, one
\* of them the substitute for a failure, and the bar stands at 3
C20_Witness ==
    /\ call.fn = "parallel_map" /\ ViaPool /\ call.progress_type = "tqdm"
    /\ ~call.raise_on_error /\ pc = "returned" /\ N = 3
    /\ \E i \in Idx : ItemOutcome(i).kind = "exc"
    /\ advances = 3

\* C20 witness for sequential_map with the rich bar
C20_WitnessSequential ==
    /\ call.fn = "sequential_map" /\ call.progress_type = "rich"
    /\ ~call.raise_on_error /\ pc = "returned" /\ N = 3
    /\ \E i \in Idx : ItemOutcome(i).kind = "exc"
    /\ advances = 3

(***************************************************************************)
(* time_utils.timeout: the wrapper starts a daemon thread running target,  *)
(* joins it for at most `seconds`, and then looks at the thread and at the *)
(* two queues.  The thread and the wrapper run concurrently; the thread    *)
(* goes on after the wrapper has left.                                     *)
(***************************************************************************)

\* the decorated calls tried: timeout(seconds)(func)(*args) with one argument
TimeoutCalls ==
    { [func |-> "recip", args |-> <<x>>, kwargs |-> EmptyDict, seconds |-> sec] :
        x \in {PyInt(-1), PyInt(0), PyInt(1), PyInt(2), PyInt(5), PyStr("ab")},
        sec \in {PyNone, PyInt(0), PyInt(1)} }

InitTimeout ==
    /\ AsyncIdle /\ RetryIdle /\ SingletonIdle /\ Base64Idle /\ OthersIdle
    /\ tcall \in TimeoutCalls
    /\ wpc = "start"
    /\ thread = "unstarted"
    /\ result_queue = <<>>
    /\ exception_queue = <<>>
    /\ delivered = NoOutcome
    /\ wait_ended = "no"

\* func(*args, **kwargs) inside target
FuncOutcome == Call(tcall.func, tcall.args, tcall.kwargs)

\* func is no longer executing: it has returned or raised
FuncFinished == thread \in {"returned", "caught", "exiting", "dead"}

\* raise TimeoutError(...)
TimeoutError == Raise("TimeoutError", tcall.func \o " timed out")

\* thread.start()
thread_start ==
    /\ wpc = "start"
    /\ thread' = "running"
    /\ wpc' = "join"
    /\ UNCHANGED <<tcall, result_queue, exception_queue, delivered, wait_ended, notTimeout>>

\* target: func returns or raises.  "except Exception" catches an Exception;
\* anything else ends the thread with both queues empty
target_call ==
    /\ thread = "running"
    /\ thread' = IF FuncOutcome.kind = "ret" THEN "returned"
                 ELSE IF CaughtByExceptException(FuncOutcome) THEN "caught"
                 ELSE "dead"
    /\ UNCHANGED <<tcall, wpc, result_queue, exception_queue, delivered, wait_ended, notTimeout>>

\* target: result_queue.put(result) or exception_queue.put(e)
target_put ==
    /\ thread \in {"returned", "caught"}
    /\ IF thread = "returned"
       THEN /\ result_queue' = Append(result_queue, FuncOutcome.val)
            /\ UNCHANGED exception_queue
       ELSE /\ exception_queue' = Append(exception_queue, FuncOutcome)
            /\ UNCHANGED result_queue
    /\ thread' = "exiting"
    /\ UNCHANGED <<tcall, wpc, delivered, wait_ended, notTimeout>>

\* target has returned: the thread ends
target_end ==
    /\ thread = "exiting"
    /\ thread' = "dead"
    /\ UNCHANGED <<tcall, wpc, result_queue, exception_queue, delivered, wait_ended, notTimeout>>

\* thread.join(timeout=seconds) returns because the thread has ended
join_thread_ended ==
    /\ wpc = "join"
    /\ thread = "dead"
    /\ wpc' = "is_alive"
    /\ wait_ended' = "finished"
    /\ UNCHANGED <<tcall, thread, result_queue, exception_queue, delivered, notTimeout>>

\* thread.join(timeout=seconds) returns because the seconds are over;
\* with seconds=None the join has no time limit
join_timed_out ==
    /\ wpc = "join"
    /\ tcall.seconds # PyNone
    /\ thread # "dead"
    /\ wpc' = "is_alive"
    /\ wait_ended' = IF FuncFinished THEN "finished" ELSE "unfinished"
    /\ UNCHANGED <<tcall, thread, result_queue, exception_queue, delivered, notTimeout>>

\* if thread.is_alive(): raise TimeoutError
check_is_alive ==
    /\ wpc = "is_alive"
    /\ IF thread # "dead"
       THEN /\ delivered' = TimeoutError
            /\ wpc' = "raised"
       ELSE /\ wpc' = "exception_queue"
            /\ UNCHANGED delivered
    /\ UNCHANGED <<tcall, thread, result_queue, exception_queue, wait_ended, notTimeout>>

\* if not exception_queue.empty(): raise exception_queue.get()
check_exception_queue ==
    /\ wpc = "exception_queue"
    /\ IF exception_queue # <<>>
       THEN /\ delivered' = Head(exception_queue)
            /\ exception_queue' = Tail(exception_queue)
            /\ wpc' = "raised"
       ELSE /\ wpc' = "result_queue"
            /\ UNCHANGED <<delivered, exception_queue>>
    /\ UNCHANGED <<tcall, thread, result_queue, wait_ended, notTimeout>>

\* if not result_queue.empty(): return result_queue.get()
\* else: raise TimeoutError
check_result_queue ==
    /\ wpc = "result_queue"
    /\ IF result_queue # <<>>
       THEN /\ delivered' = Ret(Head(result_queue))
            /\ result_queue' = Tail(result_queue)
            /\ wpc' = "returned"
       ELSE /\ delivered' = TimeoutError
            /\ wpc' = "raised"
            /\ UNCHANGED result_queue
    /\ UNCHANGED <<tcall, thread, exception_queue, wait_ended, notTimeout>>

NextTimeout ==
    \/ thread_start
    \/ target_call
    \/ target_put
    \/ target_end
    \/ join_thread_ended
    \/ join_timed_out
    \/ check_is_alive
    \/ check_exception_queue
    \/ check_result_queue

SpecTimeout == InitTimeout /\ [][NextTimeout]_vars

\* C13: when the wrapped call is over, the caller has got TimeoutError if
\* func had not finished when the wait ended, and otherwise exactly what
\* func did: its return value, or its exception re-raised.
C13_TimeoutContract ==
    (wpc \in {"returned", "raised"}) =>
        /\ wait_ended = "unfinished" => delivered = TimeoutError
        /\ wait_ended = "finished" =>
               /\ delivered.kind = FuncOutcome.kind
               /\ delivered.val = FuncOutcome.val
               /\ delivered.etype = FuncOutcome.etype
               /\ delivered.msg = FuncOutcome.msg

\* what does hold: a TimeoutError for an unfinished func leaves the thread
\* free to run to its end, and what it puts in the queues is never taken
C13_AbandonedResultNeverDelivered ==
    (wpc = "raised" /\ delivered = TimeoutError) =>
        /\ result_queue \in {<<>>, <<FuncOutcome.val>>}
        /\ thread = "dead" /\ FuncOutcome.kind = "ret" => result_queue = <<FuncOutcome.val>>

\* func ended by SystemExit before the wait was over, and the caller got
\* TimeoutError
C13_SystemExitReportedAsTimeout ==
    /\ wpc = "raised" /\ wait_ended = "finished"
    /\ FuncOutcome.kind = "base"
    /\ delivered = TimeoutError

(***************************************************************************)
(* decorators.retry: wrapper calls func until it returns, at most          *)
(* `retries` times, sleeping between two attempts.  func may do something  *)
(* else at each invocation: rcall.outcomes[k] is what its k-th invocation  *)
(* does.                                                                   *)
(***************************************************************************)

\* the largest retries tried
MaxRetries == 3

\* what one invocation of func may do
AttemptOutcomes ==
    { Ret(PyInt(1)), Ret(PyNone), Raise("ValueError", "a"), Raise("KeyError", "k"),
      RaiseBase("SystemExit", "1") }

RetryCalls ==
    UNION { { [retries |-> n, outcomes |-> os] : os \in [1..n -> AttemptOutcomes] } :
            n \in 0..MaxRetries }

InitRetry ==
    /\ AsyncIdle /\ TimeoutIdle /\ SingletonIdle /\ Base64Idle /\ OthersIdle
    /\ rcall \in RetryCalls
    /\ rpc = "start"
    /\ attempts = 0
    /\ err_history = <<>>
    /\ rlog = <<>>
    /\ rdelivered = NoOutcome

\* "\n".join(lines)
RECURSIVE JoinLines(_)
JoinLines(lines) ==
    IF lines = <<>> THEN ""
    ELSE IF Len(lines) = 1 THEN lines[1]
    ELSE lines[1] \o "\n" \o JoinLines(Tail(lines))

\* an err_text that keeps the last error only
ErrText_last_only(history) == StrOfError(history[Len(history)])

\* err_text = "\n".join([str(err) for err in err_history])
ErrText(history) == JoinLines([k \in 1..Len(history) |-> StrOfError(history[k])])

\* how many times func has been invoked, how many times time.sleep called
Invocations == Cardinality({k \in DOMAIN rlog : rlog[k] = "invoke"})
Sleeps == Cardinality({k \in DOMAIN rlog : rlog[k] = "sleep"})

\* attempts = retries; err_history = []
retry_enter ==
    /\ rpc = "start"
    /\ attempts' = rcall.retries
    /\ err_history' = <<>>
    /\ rpc' = "while"
    /\ UNCHANGED <<rcall, rlog, rdelivered, notRetry>>

\* while attempts > 0: try: return func(*args, **kwargs)
\* an Exception goes to the except branch, anything else leaves wrapper
retry_invoke ==
    /\ rpc = "while"
    /\ attempts > 0
    /\ rlog' = Append(rlog, "invoke")
    /\ LET o == rcall.outcomes[Invocations + 1]
       IN  IF o.kind = "ret"
           THEN /\ rdelivered' = o
                /\ rpc' = "returned"
                /\ UNCHANGED err_history
           ELSE IF CaughtByExceptException(o)
           THEN /\ err_history' = Append(err_history, o)
                /\ rpc' = "except"
                /\ UNCHANGED rdelivered
           ELSE /\ rdelivered' = o
                /\ rpc' = "raised"
                /\ UNCHANGED err_history
    /\ UNCHANGED <<rcall, attempts, notRetry>>

\* the except branch up to the raise: attempts -= 1, err_history.append(e)
\* (done on entry), err_text, and the raise once attempts is 0
retry_except ==
    /\ rpc = "except"
    /\ attempts' = attempts - 1
    /\ IF attempts' = 0
       THEN /\ rdelivered' = Raise("Exception", "retry failed: " \o ErrText(err_history))
            /\ rpc' = "raised"
       ELSE /\ rpc' = "sleep"
            /\ UNCHANGED rdelivered
    /\ UNCHANGED <<rcall, err_history, rlog, notRetry>>

\* time.sleep(r_delay), then back to the head of the loop
retry_sleep ==
    /\ rpc = "sleep"
    /\ rlog' = Append(rlog, "sleep")
    /\ rpc' = "while"
    /\ UNCHANGED <<rcall, attempts, err_history, rdelivered, notRetry>>

\* the loop condition fails: wrapper falls off its end and returns None
retry_fall_through ==
    /\ rpc = "while"
    /\ attempts <= 0
    /\ rdelivered' = Ret(PyNone)
    /\ rpc' = "returned"
    /\ UNCHANGED <<rcall, attempts, err_history, rlog, notRetry>>

NextRetry ==
    \/ retry_enter
    \/ retry_invoke
    \/ retry_except
    \/ retry_sleep
    \/ retry_fall_through

SpecRetry == InitRetry /\ [][NextRetry]_vars

\* the outcomes of the invocations made so far
Attempted == [k \in 1..Invocations |-> rcall.outcomes[k]]

\* C14: with retries = n >= 1, a failure being an invocation that raised an
\* Exception: func is never invoked more than n times; a sleep comes only
\* right after a failed invocation and is followed by the next invocation,
\* so there are never more sleeps than failures and none after the last
\* attempt; when wrapper returns, it returns the result of the first
\* invocation that succeeded and that invocation is the last thing done;
\* when wrapper raises Exception, exactly n invocations were made, all
\* failed, n - 1 sleeps were made, and the message is "retry failed: "
\* followed by the n error messages in attempt order; and as long as no
\* invocation ends in SystemExit or KeyboardInterrupt, wrapper ends in no
\* other way.
C14_RetryUntilSuccessOrExhausted ==
    rcall.retries >= 1 =>
        /\ Invocations <= rcall.retries
        /\ \A k \in DOMAIN rlog :
               rlog[k] = "sleep" =>
                   /\ k > 1 /\ rlog[k - 1] = "invoke"
                   /\ k < Len(rlog) => rlog[k + 1] = "invoke"
        /\ rpc \in {"returned", "raised"} => rlog[Len(rlog)] = "invoke"
        /\ rpc = "returned" =>
               /\ Attempted[Invocations].kind = "ret"
               /\ rdelivered = Attempted[Invocations]
               /\ \A k \in 1..(Invocations - 1) : Attempted[k].kind = "exc"
               /\ Sleeps = Invocations - 1
        /\ (rpc = "raised" /\ rdelivered.kind = "exc") =>
               /\ Invocations = rcall.retries
               /\ \A k \in 1..Invocations : Attempted[k].kind = "exc"
               /\ Sleeps = rcall.retries - 1
               /\ rdelivered.etype = "Exception"
               /\ rdelivered.msg =
                      "retry failed: "
                      \o JoinLines([k \in 1..rcall.retries |-> StrOfError(rcall.outcomes[k])])
        /\ (rpc \in {"returned", "raised"} /\ \A k \in 1..Invocations : Attempted[k].kind # "base") =>
               \/ rpc = "returned" /\ Attempted[Invocations].kind = "ret"
               \/ rpc = "raised" /\ Invocations = rcall.retries

\* C14 witness: retries=3, three failures, two sleeps, and the message
\* lists the three errors in the order of the attempts
C14_Witness ==
    /\ rcall.retries = 3 /\ rpc = "raised"
    /\ rlog = <<"invoke", "sleep", "invoke", "sleep", "invoke">>
    /\ rdelivered = Raise("Exception", "retry failed: a\n'k'\na")

\* C14 witness for the success: the second attempt succeeds and nothing
\* follows it
C14_WitnessSuccess ==
    /\ rcall.retries = 3 /\ rpc = "returned"
    /\ rlog = <<"invoke", "sleep", "invoke">>
    /\ rdelivered = Ret(PyInt(1))

(***************************************************************************)
(* singleton.Singleton: the metaclass keeps the one instance in the class  *)
(* attribute __instance.  __call__ takes no lock: the test of __instance,  *)
(* the construction, the assignment and the final read are separate steps  *)
(* between which another thread may run.                                   *)
(***************************************************************************)

\* the threads calling the class, and the calls each of them makes
MaxThreads == 2
MaxCalls == 2

Threads == 1..MaxThreads

\* the class has been created (Singleton.__init__ has set __instance to
\* None) and no thread has called it yet
InitSingleton ==
    /\ AsyncIdle /\ TimeoutIdle /\ RetryIdle /\ Base64Idle /\ OthersIdle
    /\ instance = 0
    /\ init_count = 0
    /\ tpc = [t \in Threads |-> "idle"]
    /\ created = [t \in Threads |-> 0]
    /\ returned = [t \in Threads |-> <<>>]

\* thread t calls Class()
singleton_call(t) ==
    /\ tpc[t] = "idle"
    /\ Len(returned[t]) < MaxCalls
    /\ tpc' = [tpc EXCEPT ![t] = "test"]
    /\ UNCHANGED <<instance, init_count, created, returned, notSingleton>>

\* if self.__instance is None
singleton_test(t) ==
    /\ tpc[t] = "test"
    /\ tpc' = [tpc EXCEPT ![t] = IF instance = 0 THEN "construct" ELSE "return"]
    /\ UNCHANGED <<instance, init_count, created, returned, notSingleton>>

\* super().__call__(*args, **kwargs): a new object, and the class's
\* __init__ runs on it
singleton_construct(t) ==
    /\ tpc[t] = "construct"
    /\ init_count' = init_count + 1
    /\ created' = [created EXCEPT ![t] = init_count + 1]
    /\ tpc' = [tpc EXCEPT ![t] = "assign"]
    /\ UNCHANGED <<instance, returned, notSingleton>>

\* self.__instance = <the new object>
singleton_assign(t) ==
    /\ tpc[t] = "assign"
    /\ instance' = created[t]
    /\ tpc' = [tpc EXCEPT ![t] = "return"]
    /\ UNCHANGED <<init_count, created, returned, notSingleton>>

\* return self.__instance
singleton_return(t) ==
    /\ tpc[t] = "return"
    /\ returned' = [returned EXCEPT ![t] = Append(returned[t], instance)]
    /\ tpc' = [tpc EXCEPT ![t] = "idle"]
    /\ UNCHANGED <<instance, init_count, created, notSingleton>>

NextSingleton ==
    \/ \E t \in Threads : singleton_call(t)
    \/ \E t \in Threads : singleton_test(t)
    \/ \E t \in Threads : singleton_construct(t)
    \/ \E t \in Threads : singleton_assign(t)
    \/ \E t \in Threads : singleton_return(t)

SpecSingleton == InitSingleton /\ [][NextSingleton]_vars

\* C15: the class's __init__ has run at most once, and all the objects
\* that calls of the class have returned, in whatever thread, are one and
\* the same object.
C15_OneInstanceOneInit ==
    /\ init_count <= 1
    /\ \A t, u \in Threads :
           \A k \in DOMAIN returned[t], l \in DOMAIN returned[u] :
               returned[t][k] = returned[u][l]

\* two threads have both found __instance to be None, __init__ has run
\* twice and the two first calls have returned different objects
C15_TwoInstances ==
    /\ init_count = 2
    /\ Len(returned[1]) >= 1 /\ Len(returned[2]) >= 1
    /\ returned[1][1] # returned[2][1]

\* what does hold: as long as thread 1 alone has called the class, __init__
\* has run at most once and every call has returned the first object
C15_SingleThreadOneInstance ==
    (\A t \in Threads : t # 1 => tpc[t] = "idle" /\ returned[t] = <<>>) =>
        /\ init_count <= 1
        /\ \A k \in DOMAIN returned[1] : returned[1][k] = 1

(***************************************************************************)
(* request_utils.get_file_base64.  A string is a sequence of characters;   *)
(* bytes are a sequence of numbers 0..255.  The file system and the server *)
(* are inputs: fs is what os.path.exists and open find under the name,     *)
(* net is what requests.get and raise_for_status do.                       *)
(***************************************************************************)

\* the longest content tried, in bytes
MaxBytes == 4

\* str.lower() on one character
Lower(c) ==
    CASE c = "H" -> "h"
      [] c = "T" -> "t"
      [] c = "P" -> "p"
      [] c = "S" -> "s"
      [] OTHER -> c

Letters == {"h", "t", "p", "s", "f", "x", "H", "T", "P", "S"}
Digits == {"1"}

\* urllib.parse.scheme_chars
SchemeChars == Letters \cup Digits \cup {"+", "-", "."}

\* "".join(chars)
RECURSIVE JoinChars(_)
JoinChars(chars) == IF chars = <<>> THEN "" ELSE Head(chars) \o JoinChars(Tail(chars))

\* url.find(":"), counted from 1; 0 when there is none
FindColon(url) ==
    IF \E i \in DOMAIN url : url[i] = ":"
    THEN CHOOSE i \in DOMAIN url : url[i] = ":" /\ \A j \in 1..(i - 1) : url[j] # ":"
    ELSE 0

\* urlparse(url).scheme: the text before the first ":" in lower case, if it
\* is not empty, begins with a letter and holds scheme characters only
UrlScheme(url) ==
    LET i == FindColon(url)
    IN  IF i > 1 /\ url[1] \in Letters /\ \A j \in 1..(i - 1) : url[j] \in SchemeChars
        THEN JoinChars([j \in 1..(i - 1) |-> Lower(url[j])])
        ELSE ""

\* a test that takes any scheme for a URL
IsHttpScheme_any(scheme) == scheme # ""

\* parsed_url.scheme in ('http', 'https')
IsHttpScheme(scheme) == scheme \in {"http", "https"}

\* the base64 alphabet
B64Alphabet ==
    << "A", "B", "C", "D", "E", "F", "G", "H", "I", "J", "K", "L", "M", "N", "O", "P",
       "Q", "R", "S", "T", "U", "V", "W", "X", "Y", "Z", "a", "b", "c", "d", "e", "f",
       "g", "h", "i", "j", "k", "l", "m", "n", "o", "p", "q", "r", "s", "t", "u", "v",
       "w", "x", "y", "z", "0", "1", "2", "3", "4", "5", "6", "7", "8", "9", "+", "/" >>

B64Char(n) == B64Alphabet[n + 1]

\* base64.b64encode(data).decode("utf-8"): three bytes give four characters,
\* a last group of one or two bytes is padded with "="
RECURSIVE B64Encode(_)
B64Encode(data) ==
    IF Len(data) = 0 THEN ""
    ELSE IF Len(data) = 1
    THEN B64Char(data[1] \div 4) \o B64Char((data[1] % 4) * 16) \o "=="
    ELSE IF Len(data) = 2
    THEN B64Char(data[1] \div 4)
         \o B64Char((data[1] % 4) * 16 + data[2] \div 16)
         \o B64Char((data[2] % 16) * 4) \o "="
    ELSE B64Char(data[1] \div 4)
         \o B64Char((data[1] % 4) * 16 + data[2] \div 16)
         \o B64Char((data[2] % 16) * 4 + data[3] \div 64)
         \o B64Char(data[3] % 64)
         \o B64Encode(SubSeq(data, 4, Len(data)))

\* the sources tried
Sources ==
    { <<"h", "t", "t", "p", ":", "/", "/", "h", "/", "f">>,
      <<"h", "t", "t", "p", "s", ":", "/", "/", "h", "/", "f">>,
      <<"H", "T", "T", "P", ":", "/", "/", "h", "/", "f">>,
      <<"f", "t", "p", ":", "/", "/", "h", "/", "f">>,
      <<"/", "f">>,
      <<"f", ".", "t">>,
      <<>>,
      <<"h", "t", "t", "p", ":", "f">>,
      <<"1", "h", "t", "t", "p", ":", "/", "/", "h">>,
      <<"h", "t", "t", "p", "x", ":", "/", "/", "h">>,
      <<":", "f">> }

\* the contents tried: "", "M", "Ma", "Man" and four bytes that are no text
Contents ==
    { c \in { <<>>, <<77>>, <<77, 97>>, <<77, 97, 110>>, <<255, 254, 0, 16>> } :
        Len(c) <= MaxBytes /\ \A k \in DOMAIN c : c[k] \in 0..255 }

\* under the name there is nothing, a readable file, or something that
\* exists and cannot be opened for reading (a directory, a file without
\* read permission)
FsStates ==
    {[kind |-> "absent", content |-> <<>>], [kind |-> "unreadable", content |-> <<>>]}
    \cup {[kind |-> "file", content |-> c] : c \in Contents}

\* the server answers 200 with a body, answers with an error status, or
\* cannot be reached
NetStates ==
    {[kind |-> "status_error", content |-> <<>>], [kind |-> "down", content |-> <<>>]}
    \cup {[kind |-> "ok", content |-> c] : c \in Contents}

InitBase64 ==
    /\ AsyncIdle /\ TimeoutIdle /\ RetryIdle /\ SingletonIdle /\ OthersIdle
    /\ source \in Sources
    /\ fs \in FsStates
    /\ source = <<>> => fs.kind = "absent"
    /\ net \in NetStates
    /\ bpc = "call"
    /\ bresult = NoOutcome

\* parsed_url = urlparse(source) and the test of its scheme
urlparse_source ==
    /\ bpc = "call"
    /\ bpc' = IF IsHttpScheme(UrlScheme(source)) THEN "request" ELSE "exists"
    /\ UNCHANGED <<source, fs, net, bresult, notBase64>>

\* requests.get, raise_for_status, and the return of the encoded body; a
\* RequestException is raised again as a new RequestException
request_get ==
    /\ bpc = "request"
    /\ IF net.kind = "ok"
       THEN /\ bresult' = Ret(PyStr(B64Encode(net.content)))
            /\ bpc' = "returned"
       ELSE /\ bresult' = Raise("RequestException", "request failed: " \o net.kind)
            /\ bpc' = "raised"
    /\ UNCHANGED <<source, fs, net, notBase64>>

\* elif os.path.exists(source), else raise ValueError
path_exists ==
    /\ bpc = "exists"
    /\ IF fs.kind # "absent"
       THEN /\ bpc' = "open"
            /\ UNCHANGED bresult
       ELSE /\ bresult' = Raise("ValueError", "invalid source: " \o JoinChars(source))
            /\ bpc' = "raised"
    /\ UNCHANGED <<source, fs, net, notBase64>>

\* open(source, "rb"), f.read() and the return of the encoded bytes; an
\* IOError is raised again as FileNotFoundError
read_file ==
    /\ bpc = "open"
    /\ IF fs.kind = "file"
       THEN /\ bresult' = Ret(PyStr(B64Encode(fs.content)))
            /\ bpc' = "returned"
       ELSE /\ bresult' = Raise("FileNotFoundError", "cannot read: " \o JoinChars(source))
            /\ bpc' = "raised"
    /\ UNCHANGED <<source, fs, net, notBase64>>

NextBase64 ==
    \/ urlparse_source
    \/ request_get
    \/ path_exists
    \/ read_file

SpecBase64 == InitBase64 /\ [][NextBase64]_vars

\* the sources tried that are http or https URLs
C16_HttpUrls ==
    { <<"h", "t", "t", "p", ":", "/", "/", "h", "/", "f">>,
      <<"h", "t", "t", "p", "s", ":", "/", "/", "h", "/", "f">>,
      <<"H", "T", "T", "P", ":", "/", "/", "h", "/", "f">>,
      <<"h", "t", "t", "p", ":", "f">> }

\* the base64 text of the contents tried
C16_Base64Of(c) ==
    CASE c = <<>> -> ""
      [] c = <<77>> -> "TQ=="
      [] c = <<77, 97>> -> "TWE="
      [] c = <<77, 97, 110>> -> "TWFu"
      [] c = <<255, 254, 0, 16>> -> "//4AEA=="

C16_WitnessUrl ==
    /\ source = <<"h", "t", "t", "p", "s", ":", "/", "/", "h", "/", "f">>
    /\ net = [kind |-> "ok", content |-> <<77, 97, 110>>]
    /\ bpc = "returned" /\ bresult = Ret(PyStr("TWFu"))

\* and the bytes of a local file
C16_WitnessFile ==
    /\ source = <<"/", "f">>
    /\ fs = [kind |-> "file", content |-> <<77>>]
    /\ bpc = "returned" /\ bresult = Ret(PyStr("TQ=="))

(***************************************************************************)
(* time_utils.Timer: wrapper counts an execution and builds its snapshot   *)
(* time_info inside "with self._lock", leaves the lock, logs, and only     *)
(* then stores the snapshot: wrapper.time_info = time_info.                *)
(***************************************************************************)

\* the decorator has been applied and no thread has called the function
InitTimer ==
    /\ AsyncIdle /\ TimeoutIdle /\ RetryIdle /\ SingletonIdle /\ Base64Idle
    /\ LoggerIdle /\ StreamIdle
    /\ turn = 0
    /\ first_start_time = FALSE
    /\ timer_lock = 0
    /\ kpc = [t \in Threads |-> "idle"]
    /\ kerror = [t \in Threads |-> FALSE]
    /\ local_info = [t \in Threads |-> [turn |-> 0, failed |-> FALSE]]
    /\ time_info = [turn |-> 0, failed |-> FALSE]
    /\ kdone = [t \in Threads |-> 0]

\* thread t calls the decorated function
timer_call(t) ==
    /\ kpc[t] = "idle"
    /\ kdone[t] < MaxCalls
    /\ kpc' = [kpc EXCEPT ![t] = "first_start"]
    /\ UNCHANGED <<turn, first_start_time, timer_lock, kerror, local_info, time_info, kdone,
                   notTimer>>

\* with self._lock: if self.first_start_time is None: set it
timer_first_start(t) ==
    /\ kpc[t] = "first_start"
    /\ timer_lock = 0
    /\ first_start_time' = TRUE
    /\ kpc' = [kpc EXCEPT ![t] = "func"]
    /\ UNCHANGED <<turn, timer_lock, kerror, local_info, time_info, kdone, notTimer>>

\* result = func(...): it returns, raises an Exception (error = e) or
\* raises something else; the finally block follows in each case
timer_func(t) ==
    /\ kpc[t] = "func"
    /\ \E outcome \in {"ret", "exc", "base"} :
           kerror' = [kerror EXCEPT ![t] = (outcome = "exc")]
    /\ kpc' = [kpc EXCEPT ![t] = "acquire"]
    /\ UNCHANGED <<turn, first_start_time, timer_lock, local_info, time_info, kdone, notTimer>>

\* finally: with self._lock (entered)
timer_acquire(t) ==
    /\ kpc[t] = "acquire"
    /\ timer_lock = 0
    /\ timer_lock' = t
    /\ kpc' = [kpc EXCEPT ![t] = "count"]
    /\ UNCHANGED <<turn, first_start_time, kerror, local_info, time_info, kdone, notTimer>>

\* self.turn += 1 ... time_info = {..., 'turn': self.turn, ...}
timer_count(t) ==
    /\ kpc[t] = "count"
    /\ turn' = turn + 1
    /\ local_info' = [local_info EXCEPT ![t] = [turn |-> turn + 1, failed |-> kerror[t]]]
    /\ kpc' = [kpc EXCEPT ![t] = "release"]
    /\ UNCHANGED <<first_start_time, timer_lock, kerror, time_info, kdone, notTimer>>

\* the with block is left; the message is logged outside the lock
timer_release(t) ==
    /\ kpc[t] = "release"
    /\ timer_lock' = 0
    /\ kpc' = [kpc EXCEPT ![t] = "store"]
    /\ UNCHANGED <<turn, first_start_time, kerror, local_info, time_info, kdone, notTimer>>

\* wrapper.time_info = time_info, and the call is over
timer_store(t) ==
    /\ kpc[t] = "store"
    /\ time_info' = local_info[t]
    /\ kdone' = [kdone EXCEPT ![t] = kdone[t] + 1]
    /\ kpc' = [kpc EXCEPT ![t] = "idle"]
    /\ UNCHANGED <<turn, first_start_time, timer_lock, kerror, local_info, notTimer>>

NextTimer ==
    \/ \E t \in Threads : timer_call(t)
    \/ \E t \in Threads : timer_first_start(t)
    \/ \E t \in Threads : timer_func(t)
    \/ \E t \in Threads : timer_acquire(t)
    \/ \E t \in Threads : timer_count(t)
    \/ \E t \in Threads : timer_release(t)
    \/ \E t \in Threads : timer_store(t)

SpecTimer == InitTimer /\ [][NextTimer]_vars

\* get_time_info(): with self._lock: return getattr(wrapper, 'time_info', {})
get_time_info == time_info

\* the calls finished by the threads 1..n
RECURSIVE CallsFinished(_)
CallsFinished(n) == IF n = 0 THEN 0 ELSE kdone[n] + CallsFinished(n - 1)

\* C21: once every call has finished, Timer.turn is the number of calls
\* made and get_time_info() is the snapshot of the execution counted last:
\* its 'turn' equals Timer.turn.
C21_SnapshotOfLastCounted ==
    (\A t \in Threads : kpc[t] = "idle") =>
        /\ turn = CallsFinished(MaxThreads)
        /\ turn > 0 => get_time_info.turn = turn

\* what does hold: the count.  Once every call has finished, Timer.turn is
\* the number of calls made, failed ones included
C21_TurnCountsCalls ==
    (\A t \in Threads : kpc[t] = "idle") => turn = CallsFinished(MaxThreads)

\* two calls have finished, Timer.turn is 2, and the snapshot in place is
\* that of the execution counted first
C21_OlderSnapshotInPlace ==
    /\ \A t \in Threads : kpc[t] = "idle"
    /\ turn = 2
    /\ get_time_info.turn = 1

(***************************************************************************)
(* logger.Logger: the console handler and the file handlers.  A handler is *)
(* a record; None is the record of kind "none".  Each method is one step.  *)
(***************************************************************************)

\* the number of calls made to the Logger in one behaviour
MaxLoggerOps == 4

\* Logger.LEVEL_MAPPING
LEVEL_MAPPING ==
    [debug |-> 10, info |-> 20, notice |-> 25, warning |-> 30, error |-> 40, critical |-> 50]

\* handlers; level 0 is logging.NOTSET, the level of a new handler
NoneHandler == [kind |-> "none", id |-> 0, level |-> 0]
RichHandler == [kind |-> "console", id |-> 0, level |-> 0]
RotatingFileHandler(n) == [kind |-> "file", id |-> n, level |-> 0]

\* the log files and the levels passed to add_file_handler
LogFiles == {"a.log", "b.log"}
FileLevels == {PyNone, PyStr("debug"), PyStr("INFO"), PyStr("verbose"), PyInt(10)}

\* str.lower() on the level names tried
LowerLevel(s) == IF s = "INFO" THEN "info" ELSE s

\* a conversion that takes an unknown name for NOTSET instead of raising
convert_log_level_lenient(log_level) ==
    IF log_level.t = "str"
    THEN IF LowerLevel(log_level.v) \in DOMAIN LEVEL_MAPPING
         THEN Ret(PyInt(LEVEL_MAPPING[LowerLevel(log_level.v)]))
         ELSE Ret(PyInt(0))
    ELSE Ret(log_level)

\* Logger._convert_log_level
convert_log_level(log_level) ==
    IF log_level.t = "str"
    THEN IF LowerLevel(log_level.v) \in DOMAIN LEVEL_MAPPING
         THEN Ret(PyInt(LEVEL_MAPPING[LowerLevel(log_level.v)]))
         ELSE Raise("ValueError", "unsupported log level: " \o log_level.v)
    ELSE Ret(log_level)

\* h in self.logger.handlers
InHandlers(h, hs) == \E k \in DOMAIN hs : hs[k] = h

\* logging.Logger.addHandler: appended unless already in the list; what is
\* appended is not looked at
addHandler(hs, h) == IF InHandlers(h, hs) THEN hs ELSE Append(hs, h)

\* logging.Logger.removeHandler: list.remove if it is in the list
removeHandler(hs, h) ==
    IF InHandlers(h, hs)
    THEN LET k == CHOOSE j \in DOMAIN hs : hs[j] = h /\ \A i \in 1..(j - 1) : hs[i] # h
         IN  SubSeq(hs, 1, k - 1) \o SubSeq(hs, k + 1, Len(hs))
    ELSE hs

\* self.logger.info / warning / error with the handlers hs: callHandlers
\* reads hdlr.level of every handler, which None does not have
LogRecord(hs) ==
    IF \E k \in DOMAIN hs : hs[k].kind = "none"
    THEN Raise("AttributeError", "'NoneType' object has no attribute 'level'")
    ELSE Ret(PyNone)

\* what a method gives its caller: True, False, or the exception of a
\* logging call that failed outside a try block or inside an except branch
LoggerReturn(value, hs) == IF LogRecord(hs).kind = "ret" THEN value ELSE LogRecord(hs).etype

\* the record of a call: the method, its argument, what it gave, and the
\* handlers and the registry as they were before it
Called(op, logfile, log_level, ret) ==
    [op |-> op, logfile |-> logfile, log_level |-> log_level, ret |-> ret,
     handlers_before |-> handlers, dict_before |-> file_handler_dict,
     op_before |-> lret.op]

\* the Logger as __init__ leaves it
InitLogger ==
    /\ AsyncIdle /\ TimeoutIdle /\ RetryIdle /\ SingletonIdle /\ Base64Idle
    /\ TimerIdle /\ StreamIdle
    /\ handlers = <<RichHandler>>
    /\ console_handler = RichHandler
    /\ file_handler_dict = <<>>
    /\ handler_count = 0
    /\ lret = [op |-> "init"]
    /\ lops = 0

\* add_console_handler()
add_console_handler ==
    /\ lops < MaxLoggerOps
    /\ lops' = lops + 1
    /\ IF InHandlers(console_handler, handlers)
       THEN /\ lret' = Called("add_console_handler", "", PyNone, LoggerReturn("False", handlers))
            /\ UNCHANGED handlers
       ELSE /\ handlers' = addHandler(handlers, console_handler)
            /\ lret' = Called("add_console_handler", "", PyNone, LoggerReturn("True", handlers'))
    /\ UNCHANGED <<console_handler, file_handler_dict, handler_count, notLogger>>

\* remove_console_handler()
remove_console_handler ==
    /\ lops < MaxLoggerOps
    /\ lops' = lops + 1
    /\ IF console_handler = NoneHandler
       THEN /\ lret' = Called("remove_console_handler", "", PyNone,
                              LoggerReturn("False", handlers))
            /\ UNCHANGED <<handlers, console_handler>>
       ELSE /\ handlers' = removeHandler(handlers, console_handler)
            /\ console_handler' = NoneHandler
            /\ lret' = Called("remove_console_handler", "", PyNone, "True")
    /\ UNCHANGED <<file_handler_dict, handler_count, notLogger>>

\* add_file_handler(logfile, log_level); open_ok says whether
\* RotatingFileHandler can open the file
add_file_handler ==
    /\ lops < MaxLoggerOps
    /\ lops' = lops + 1
    /\ \E logfile \in LogFiles, log_level \in FileLevels, open_ok \in BOOLEAN :
        LET level == convert_log_level(log_level)
            file_handler ==
                [RotatingFileHandler(handler_count + 1) EXCEPT
                    !.level = IF log_level = PyNone THEN 0 ELSE level.val.v]
        IN  IF logfile \in DOMAIN file_handler_dict
            THEN /\ lret' = Called("add_file_handler", logfile, log_level,
                                   LoggerReturn("False", handlers))
                 /\ UNCHANGED <<handlers, file_handler_dict, handler_count>>
            ELSE IF ~open_ok
            THEN /\ lret' = Called("add_file_handler", logfile, log_level,
                                   LoggerReturn("False", handlers))
                 /\ UNCHANGED <<handlers, file_handler_dict, handler_count>>
            ELSE IF log_level # PyNone /\ level.kind # "ret"
            THEN /\ lret' = Called("add_file_handler", logfile, log_level,
                                   LoggerReturn("False", handlers))
                 /\ handler_count' = handler_count + 1
                 /\ UNCHANGED <<handlers, file_handler_dict>>
            ELSE /\ handlers' = addHandler(handlers, file_handler)
                 /\ file_handler_dict' =
                        [f \in DOMAIN file_handler_dict \cup {logfile} |->
                            IF f = logfile THEN file_handler ELSE file_handler_dict[f]]
                 /\ handler_count' = handler_count + 1
                 /\ lret' = Called("add_file_handler", logfile, log_level,
                                   LoggerReturn("True", handlers'))
    /\ UNCHANGED <<console_handler, notLogger>>

\* remove_file_handler(logfile)
remove_file_handler ==
    /\ lops < MaxLoggerOps
    /\ lops' = lops + 1
    /\ \E logfile \in LogFiles :
        IF logfile \in DOMAIN file_handler_dict
        THEN /\ handlers' = removeHandler(handlers, file_handler_dict[logfile])
             /\ file_handler_dict' =
                    [f \in DOMAIN file_handler_dict \ {logfile} |-> file_handler_dict[f]]
             /\ lret' = Called("remove_file_handler", logfile, PyNone,
                               LoggerReturn("True", handlers'))
        ELSE /\ lret' = Called("remove_file_handler", logfile, PyNone,
                               LoggerReturn("False", handlers))
             /\ UNCHANGED <<handlers, file_handler_dict>>
    /\ UNCHANGED <<console_handler, handler_count, notLogger>>

\* sequences of add_file_handler and remove_file_handler calls
NextLoggerFiles ==
    \/ add_file_handler
    \/ remove_file_handler

SpecLoggerFiles == InitLogger /\ [][NextLoggerFiles]_vars

\* sequences of calls of the four methods
NextLogger ==
    \/ add_console_handler
    \/ remove_console_handler
    \/ add_file_handler
    \/ remove_file_handler

SpecLogger == InitLogger /\ [][NextLogger]_vars

\* the log files whose handler is in the logger's handler list
AttachedFiles ==
    {f \in DOMAIN file_handler_dict : InHandlers(file_handler_dict[f], handlers)}

\* how many times the handler h is in the list hs
TimesIn(h, hs) == Cardinality({k \in DOMAIN hs : hs[k] = h})

\* the level names that are no key of LEVEL_MAPPING, in any case of letters
C22_UnsupportedLevels == {PyStr("verbose")}

\* the last call left the handler list and the registry as they were
C22_NothingChanged ==
    /\ handlers = lret.handlers_before
    /\ file_handler_dict = lret.dict_before

\* C22: after any sequence of add_file_handler and remove_file_handler
\* calls the registered files are the files with a handler in the logger's
\* list, one handler each and no file handler that belongs to no registered
\* file; an add for a registered file, a remove for an unregistered file
\* and an add with an unsupported level name have returned False and
\* changed neither the list nor the registry.
C22_RegistryMatchesHandlers ==
    /\ AttachedFiles = DOMAIN file_handler_dict
    /\ \A f \in DOMAIN file_handler_dict :
           /\ file_handler_dict[f].kind = "file"
           /\ TimesIn(file_handler_dict[f], handlers) = 1
    /\ \A f, g \in DOMAIN file_handler_dict : f # g => file_handler_dict[f] # file_handler_dict[g]
    /\ \A k \in DOMAIN handlers :
           handlers[k].kind = "file" => \E f \in DOMAIN file_handler_dict : file_handler_dict[f] = handlers[k]
    /\ (lret.op = "add_file_handler" /\ lret.logfile \in DOMAIN lret.dict_before) =>
           lret.ret = "False" /\ C22_NothingChanged
    /\ (lret.op = "remove_file_handler" /\ lret.logfile \notin DOMAIN lret.dict_before) =>
           lret.ret = "False" /\ C22_NothingChanged
    /\ (lret.op = "add_file_handler" /\ lret.log_level \in C22_UnsupportedLevels) =>
           lret.ret = "False" /\ C22_NothingChanged

\* C22 witness: a.log is registered; an add for b.log with the level
\* "verbose" has just returned False and a.log's handler is still the only
\* file handler
C22_Witness ==
    /\ lret.op = "add_file_handler" /\ lret.logfile = "b.log"
    /\ lret.log_level = PyStr("verbose") /\ lret.ret = "False"
    /\ DOMAIN file_handler_dict = {"a.log"}
    /\ Len(handlers) = 2

\* C22 witness: add, remove, add again of the same file: registered with
\* the third handler built, attached once
C22_WitnessReAdd ==
    /\ lret.op = "add_file_handler" /\ lret.ret = "True" /\ lret.op_before = "remove_file_handler"
    /\ DOMAIN file_handler_dict = {"a.log"}
    /\ handlers = <<RichHandler, file_handler_dict["a.log"]>>
    /\ lops = 3

\* C23: the handler list never holds None; add_console_handler has
\* returned True exactly when it attached the console handler, and False
\* when one was attached already; and an add_console_handler that follows
\* a remove_console_handler has attached a console handler and returned
\* True.
C23_ConsoleHandlerReattached ==
    /\ \A k \in DOMAIN handlers : handlers[k].kind # "none"
    /\ lret.op = "add_console_handler" =>
           /\ lret.ret \in {"True", "False"}
           /\ lret.ret = "True" <=>
                  /\ ~InHandlers(RichHandler, lret.handlers_before)
                  /\ InHandlers(RichHandler, handlers)
           /\ InHandlers(RichHandler, lret.handlers_before) => lret.ret = "False"
           /\ lret.op_before = "remove_console_handler" =>
                  lret.ret = "True" /\ InHandlers(RichHandler, handlers)

\* remove_console_handler() then add_console_handler(): None is in the
\* handler list and the add has raised AttributeError
C23_NoneAttached ==
    /\ lret.op = "add_console_handler" /\ lret.op_before = "remove_console_handler"
    /\ handlers = <<NoneHandler>>
    /\ lret.ret = "AttributeError"

(***************************************************************************)
(* cmd_utils.run_cmd_stream: a generator.  The consumer resumes it with    *)
(* next() or ends it with close(), which raises GeneratorExit at the       *)
(* yield.  The child writes its output into the pipe when it starts and    *)
(* may close its stdout or exit at any time, or never.  A line is a        *)
(* sequence of characters ending in a newline.                             *)
(***************************************************************************)

\* the longest output of the child, in lines
MaxLines == 3

\* the lines the child may write: "a", a blank line, " b"
RawLines == { <<"a", "\n">>, <<"\n">>, <<" ", "b", "\n">> }

Whitespace == {" ", "\n"}

\* str.strip(): leading and trailing whitespace removed
RECURSIVE LStrip(_)
LStrip(s) == IF s # <<>> /\ Head(s) \in Whitespace THEN LStrip(Tail(s)) ELSE s

RECURSIVE RStrip(_)
RStrip(s) ==
    IF s # <<>> /\ s[Len(s)] \in Whitespace THEN RStrip(SubSeq(s, 1, Len(s) - 1)) ELSE s

Strip(s) == JoinChars(RStrip(LStrip(s)))

\* the callbacks tried: none; one that returns the line; one that returns
\* "" for "b"; one that raises ValueError for "a"; one that raises
\* SystemExit for "b"
Callbacks == {"none", "echo", "drop_b", "raise_a", "exit_b"}

\* line_callback(line)
line_callback(cb, l) ==
    CASE cb = "drop_b" /\ l = "b" -> Ret(PyStr(""))
      [] cb = "raise_a" /\ l = "a" -> Raise("ValueError", "bad line")
      [] cb = "exit_b" /\ l = "b" -> RaiseBase("SystemExit", "1")
      [] OTHER -> Ret(PyStr(l))

StreamCalls ==
    { [lines |-> ls, line_callback |-> cb, max_lines |-> ml, popen_ok |-> ok] :
        ls \in SeqsUpTo(RawLines, MaxLines), cb \in Callbacks, ml \in 0..MaxLines,
        ok \in BOOLEAN }

\* the generator object has been created; nothing runs before the first next()
InitStream ==
    /\ AsyncIdle /\ TimeoutIdle /\ RetryIdle /\ SingletonIdle /\ Base64Idle
    /\ TimerIdle /\ LoggerIdle
    /\ scall \in StreamCalls
    /\ gpc = "start"
    /\ process = "none"
    /\ pipe = <<>>
    /\ line_count = 0
    /\ line = ""
    /\ lines_out = <<>>
    /\ gexc = "none"
    /\ signals = <<>>

\* process.poll() is None
Alive == process \in {"running", "closed"}

\* the first next(): subprocess.Popen(...) and line_count = 0; a Popen that
\* raises is caught by "except Exception" and leads to the finally block
stream_start ==
    /\ gpc = "start"
    /\ IF scall.popen_ok
       THEN /\ process' = "running"
            /\ pipe' = scall.lines
            /\ gpc' = "readline"
       ELSE /\ gpc' = "finally"
            /\ UNCHANGED <<process, pipe>>
    /\ UNCHANGED <<scall, line_count, line, lines_out, gexc, signals, notStream>>

\* for line in iter(process.stdout.readline, ""): the next line, or the end
\* of the loop at end of file; then line_count, the max_lines test,
\* strip() and the test for an empty line
stream_readline ==
    /\ gpc = "readline"
    /\ IF pipe # <<>>
       THEN /\ pipe' = Tail(pipe)
            /\ line_count' = line_count + 1
            /\ IF line_count' > scall.max_lines
               THEN /\ gpc' = "finally"
                    /\ UNCHANGED line
               ELSE /\ line' = Strip(Head(pipe))
                    /\ gpc' = IF line' = "" THEN "readline"
                              ELSE IF scall.line_callback # "none" THEN "callback"
                              ELSE "yield"
       ELSE /\ process \in {"closed", "exited"}
            /\ gpc' = "finally"
            /\ UNCHANGED <<pipe, line_count, line>>
    /\ UNCHANGED <<scall, process, lines_out, gexc, signals, notStream>>

\* line = line_callback(line): an empty result or an Exception skips the
\* line; anything else raised leaves the generator through finally
stream_callback ==
    /\ gpc = "callback"
    /\ LET r == line_callback(scall.line_callback, line)
       IN  IF r.kind = "ret"
           THEN /\ line' = r.val.v
                /\ gpc' = IF r.val.v = "" THEN "readline" ELSE "yield"
                /\ UNCHANGED gexc
           ELSE IF CaughtByExceptException(r)
           THEN /\ gpc' = "readline"
                /\ UNCHANGED <<line, gexc>>
           ELSE /\ gexc' = r.etype
                /\ gpc' = "finally"
                /\ UNCHANGED line
    /\ UNCHANGED <<scall, process, pipe, line_count, lines_out, signals, notStream>>

\* yield line
stream_yield ==
    /\ gpc = "yield"
    /\ lines_out' = Append(lines_out, line)
    /\ gpc' = "suspended"
    /\ UNCHANGED <<scall, process, pipe, line_count, line, gexc, signals, notStream>>

\* the consumer calls next() again
consumer_next ==
    /\ gpc = "suspended"
    /\ gpc' = "readline"
    /\ UNCHANGED <<scall, process, pipe, line_count, line, lines_out, gexc, signals, notStream>>

\* the consumer closes the generator: GeneratorExit at the yield, which
\* no except branch catches
consumer_close ==
    /\ gpc = "suspended"
    /\ gexc' = "GeneratorExit"
    /\ gpc' = "finally"
    /\ UNCHANGED <<scall, process, pipe, line_count, line, lines_out, signals, notStream>>

\* finally: if process and process.poll() is None
stream_finally ==
    /\ gpc = "finally"
    /\ gpc' = IF Alive THEN "terminate" ELSE "done"
    /\ UNCHANGED <<scall, process, pipe, line_count, line, lines_out, gexc, signals, notStream>>

\* process.terminate(): SIGTERM is sent; what the child does with it is
\* the child's affair
stream_terminate ==
    /\ gpc = "terminate"
    /\ signals' = Append(signals, "SIGTERM")
    /\ gpc' = "wait"
    /\ UNCHANGED <<scall, process, pipe, line_count, line, lines_out, gexc, notStream>>

\* process.wait(timeout=5) returns: the child has exited
stream_wait_exited ==
    /\ gpc = "wait"
    /\ ~Alive
    /\ gpc' = "done"
    /\ UNCHANGED <<scall, process, pipe, line_count, line, lines_out, gexc, signals, notStream>>

\* a handler of TimeoutExpired that gives up on the child
stream_wait_timeout_no_kill ==
    /\ gpc = "wait"
    /\ Alive
    /\ gpc' = "done"
    /\ UNCHANGED <<scall, process, pipe, line_count, line, lines_out, gexc, signals, notStream>>

\* process.wait(timeout=5) raises TimeoutExpired: process.kill() and
\* process.wait(), which returns when the child is dead
stream_wait_timeout ==
    /\ gpc = "wait"
    /\ Alive
    /\ signals' = Append(signals, "SIGKILL")
    /\ process' = "exited"
    /\ gpc' = "done"
    /\ UNCHANGED <<scall, pipe, line_count, line, lines_out, gexc, notStream>>

\* the child closes its stdout and goes on running
child_close_stdout ==
    /\ process = "running"
    /\ process' = "closed"
    /\ UNCHANGED <<scall, gpc, pipe, line_count, line, lines_out, gexc, signals, notStream>>

\* the child exits, by itself or because of SIGTERM
child_exit ==
    /\ Alive
    /\ process' = "exited"
    /\ UNCHANGED <<scall, gpc, pipe, line_count, line, lines_out, gexc, signals, notStream>>

NextStream ==
    \/ stream_start
    \/ stream_readline
    \/ stream_callback
    \/ stream_yield
    \/ consumer_next
    \/ consumer_close
    \/ stream_finally
    \/ stream_terminate
    \/ stream_wait_exited
    \/ stream_wait_timeout
    \/ child_close_stdout
    \/ child_exit

SpecStream == InitStream /\ [][NextStream]_vars

\* C24: once the generator has finished, on whatever path, the child is
\* not running; and the generator has never yielded more lines than
\* max_lines, nor more than it has read.
C24_ChildStoppedWhenFinished ==
    /\ gpc = "done" => process \in {"none", "exited"}
    /\ gpc = "done" /\ scall.popen_ok => process = "exited"
    /\ Len(lines_out) <= scall.max_lines
    /\ Len(lines_out) <= line_count

\* C24 witness: the consumer closed the generator after the first line,
\* with output left unread, and the child, which had to be killed or had
\* exited on SIGTERM, is dead
C24_Witness ==
    /\ gpc = "done" /\ gexc = "GeneratorExit"
    /\ Len(lines_out) = 1 /\ pipe # <<>>
    /\ signals = <<"SIGTERM", "SIGKILL">>
    /\ process = "exited"

\* C24 witness: more than max_lines lines: the third line ends the loop
\* after two lines were yielded
C24_WitnessMaxLines ==
    /\ gpc = "done" /\ gexc = "none"
    /\ scall.max_lines = 2 /\ line_count = 3
    /\ lines_out = <<"a", "b">>
    /\ process = "exited"

\* C24 witness: the callback left the generator with SystemExit
C24_WitnessException ==
    /\ gpc = "done" /\ gexc = "SystemExit" /\ process = "exited"

(***************************************************************************)
(* The map functions called with a log_level that is not a str, such as    *)
(* logging.INFO or None: Logger.log calls level.lower() on it.             *)
(***************************************************************************)

\* logging.INFO and None
NonStrLogLevels == {PyInt(20), PyNone}

LogLevelCalls ==
    { MapCall(e[1], "recip", items, e[2], FALSE, FALSE, roe, erv, lvl) :
        e \in MapEntries, items \in SeqsUpTo({PyInt(2), PyInt(0)}, MaxItems),
        roe \in BOOLEAN, erv \in {PyNone, PyStr("error_log")}, lvl \in NonStrLogLevels }

InitLog ==
    /\ TimeoutIdle /\ RetryIdle /\ SingletonIdle /\ Base64Idle /\ OthersIdle
    /\ call \in LogLevelCalls \cup ExecDocCalls \cup {ExecCall(<<>>, PyNone, FALSE, PyNone)}
    /\ pc = call.fn
    /\ results = <<>>
    /\ st = [i \in 1..Len(call.items) |-> "new"]
    /\ fut = [i \in 1..Len(call.items) |-> NoOutcome]
    /\ invoc = <<>>
    /\ yielded = <<>>
    /\ pool = "none"
    /\ workers = 0
    /\ err = NoOutcome
    /\ pending = 0
    /\ advances = 0

SpecLog == InitLog /\ [][Next]_vars

\* C26: when parallel_map, sequential_map or auto_map has returned with
\* raise_on_error=False, every slot whose item func returned a value for
\* holds that value, whatever the logging of the result did.
C26_ResultSurvivesLogging ==
    pc = "returned" /\ call.fn # "parallel_execute" /\ ~call.raise_on_error
        => \A i \in Idx : ItemOutcome(i).kind = "ret" => results[i] = ItemOutcome(i).val

\* C26: a call returned a list in which the substitute stands where func
\* returned a value
C26_ResultReplaced ==
    /\ pc = "returned" /\ ~call.raise_on_error /\ call.log_level = PyInt(20)
    /\ call.items = <<PyInt(2), PyInt(2)>>
    /\ results = <<PyNone, PyNone>>

(***************************************************************************)
(* sequential_map as a function of the call: its loop run to the end, from *)
(* the list built so far.  It gives the list returned or the exception     *)
(* raised.                                                                 *)
(***************************************************************************)
RECURSIVE sequential_map_loop(_, _)
sequential_map_loop(c, acc) ==
    IF Len(acc) = Len(c.items) THEN Ret(PyList(acc))
    ELSE LET o == TryBlock(submit_task(c.func, c.items[Len(acc) + 1],
                                       c.unpack_args, c.unpack_kwargs), c.log_level)
         IN  IF o.kind = "ret" THEN sequential_map_loop(c, Append(acc, o.val))
             ELSE IF CaughtByExceptException(o) /\ ~c.raise_on_error
             THEN sequential_map_loop(c, Append(acc, Substitute(o, c.error_return_value)))
             ELSE IF CaughtByExceptException(o) THEN Reraise(o)
             ELSE o

\* C27: with raise_on_error=False a call that went through the pool
\* (max_workers >= 2) and returned has returned the list sequential_map
\* returns for the same items, flags and error_return_value, whatever the
\* order in which the tasks ran and completed; and it has raised only if
\* sequential_map raises too.
C27_ParallelEqualsSequential ==
    ViaPool /\ ~call.raise_on_error =>
        /\ pc = "returned" => sequential_map_loop(call, <<>>) = Ret(PyList(results))
        /\ pc = "raised" => sequential_map_loop(call, <<>>).kind # "ret"

\* C27 witness: three items on two workers, completed in an order other
\* than the order of the items, one of them failed and substituted
C27_Witness ==
    /\ ViaPool /\ ~call.raise_on_error /\ pc = "returned"
    /\ N = 3 /\ yielded[1] = 3
    /\ call.error_return_value = PyStr("error_log")
    /\ \E i \in Idx : ItemOutcome(i).kind = "exc"
    /\ \E i \in Idx : ItemOutcome(i).kind = "ret"
    /\ sequential_map_loop(call, <<>>) = Ret(PyList(results))

(***************************************************************************)
(* Termination.  The calling thread and the pool's worker threads are      *)
(* threads of the operating system, each of which runs when it can; a      *)
(* worker's step worker_finish is func returning or raising, which is      *)
(* assumed of func.                                                        *)
(***************************************************************************)
LiveCalls ==
    { MapCall(e[1], "recip", items, e[2], FALSE, FALSE, roe, PyNone, PyStr("none")) :
        e \in MapEntries, items \in SeqsUpTo({PyInt(2), PyInt(0)}, MaxItems),
        roe \in BOOLEAN }
    \cup ExecDocCalls \cup {ExecCall(<<>>, PyNone, FALSE, PyNone)}

InitLive ==
    /\ TimeoutIdle /\ RetryIdle /\ SingletonIdle /\ Base64Idle /\ OthersIdle
    /\ call \in LiveCalls
    /\ pc = call.fn
    /\ results = <<>>
    /\ st = [i \in 1..Len(call.items) |-> "new"]
    /\ fut = [i \in 1..Len(call.items) |-> NoOutcome]
    /\ invoc = <<>>
    /\ yielded = <<>>
    /\ pool = "none"
    /\ workers = 0
    /\ err = NoOutcome
    /\ pending = 0
    /\ advances = 0

\* the steps of the pool's worker threads
WorkerStep == worker_start \/ worker_finish

\* the steps of the calling thread
CallerStep ==
    \/ auto_map
    \/ parallel_map_delegate
    \/ parallel_map_pool
    \/ sequential_map
    \/ seq_invoke
    \/ seq_record
    \/ seq_return
    \/ parallel_execute_empty
    \/ parallel_execute_pool
    \/ submit
    \/ submit_done
    \/ parallel_map_collect
    \/ parallel_execute_collect
    \/ collect_done
    \/ pool_exit

SpecLive == InitLive /\ [][Next]_vars /\ WF_vars(CallerStep) /\ WF_vars(WorkerStep)

\* the call is over
Finished == pc \in {"returned", "raised"}

\* C25: every call of parallel_map, with any number of items and any
\* max_workers, eventually returns or raises; and whenever the calling
\* thread cannot take a step before that, a task of this call is queued or
\* running in the pool.
C25_EventuallyReturnsOrRaises ==
    /\ call.fn = "parallel_map" => <>Finished
    /\ [](call.fn = "parallel_map" /\ ~Finished /\ ~ENABLED CallerStep
            => pool = "open" /\ Running \cup Queued # {})

\* C25 witness: a call with more items than workers has returned after
\* waiting, at the end of the pool, for a task still queued
C25_Witness ==
    /\ call.fn = "parallel_map" /\ Finished
    /\ N = 3 /\ workers = 2 /\ pool = "joined"
    /\ pending > 0

\* C25 witness: a call with no items has returned
C25_WitnessEmpty ==
    /\ call.fn = "parallel_map" /\ pc = "returned" /\ N = 0 /\ call.max_workers.v = 2

====
